---- MODULE Spec2Model ----
(***************************************************************************)
(* Model of the duplicate-removal endpoint (app/api/process-excel) and of  *)
(* the column-matching endpoint (app/api/match-columns).                   *)
(*                                                                         *)
(* A JavaScript string is a sequence of one-character strings.  A cell     *)
(* value is a tagged record: absent (null / undefined / missing key), a    *)
(* string, a number or a boolean.  A similarity score is an exact fraction *)
(* [n, d] with d > 0; NaN does not arise in the modelled scorers.          *)
(***************************************************************************)
EXTENDS Integers, Sequences, FiniteSets, TLC

VARIABLES request, pc, i, slicedData, seen, uniqueRows, uniqueSignatures,
          duplicatesFound, file2Values, matches, matchedCount,
          unmatchedCount, signaturesBuilt, pairsScored, response,
          home, matchPage, written

\* The state of the two pages (the Home and MatchPage components) and the
\* file written by the step just taken, if it was an export
pageVars == <<home, matchPage, written>>

\* The state of a request handler
apiVars == <<request, pc, i, slicedData, seen, uniqueRows, uniqueSignatures,
             duplicatesFound, file2Values, matches, matchedCount,
             unmatchedCount, signaturesBuilt, pairsScored, response>>

vars == <<apiVars, pageVars>>

(***************************************************************************)
(* Bounds                                                                  *)
(***************************************************************************)
MaxRows == 3

MaxTargets == 2

MaxStrLen == 2

(***************************************************************************)
(* JavaScript built-ins used by the handlers                               *)
(***************************************************************************)
Min(a, b) == IF a <= b THEN a ELSE b

Max(a, b) == IF a >= b THEN a ELSE b

IsSpace(c) == c = " "

UpperLetters ==
  <<"A", "B", "C", "D", "E", "F", "G", "H", "I", "J", "K", "L", "M",
    "N", "O", "P", "Q", "R", "S", "T", "U", "V", "W", "X", "Y", "Z">>

LowerLetters ==
  <<"a", "b", "c", "d", "e", "f", "g", "h", "i", "j", "k", "l", "m",
    "n", "o", "p", "q", "r", "s", "t", "u", "v", "w", "x", "y", "z">>

LowerChar(c) ==
  IF \E k \in 1..Len(UpperLetters) : UpperLetters[k] = c
  THEN LowerLetters[CHOOSE k \in 1..Len(UpperLetters) : UpperLetters[k] = c]
  ELSE c

toLowerCase(s) == [k \in 1..Len(s) |-> LowerChar(s[k])]

RECURSIVE TrimStart(_)
TrimStart(s) ==
  IF s # <<>> /\ IsSpace(Head(s)) THEN TrimStart(Tail(s)) ELSE s

RECURSIVE TrimEnd(_)
TrimEnd(s) ==
  IF s # <<>> /\ IsSpace(s[Len(s)]) THEN TrimEnd(SubSeq(s, 1, Len(s) - 1))
  ELSE s

trim(s) == TrimEnd(TrimStart(s))

DigitChar(d) ==
  CASE d = 0 -> "0" [] d = 1 -> "1" [] d = 2 -> "2" [] d = 3 -> "3"
    [] d = 4 -> "4" [] d = 5 -> "5" [] d = 6 -> "6" [] d = 7 -> "7"
    [] d = 8 -> "8" [] d = 9 -> "9"

RECURSIVE NatToString(_)
NatToString(n) ==
  IF n < 10 THEN <<DigitChar(n)>>
  ELSE NatToString(n \div 10) \o <<DigitChar(n % 10)>>

NumberToString(n) ==
  IF n < 0 THEN <<"-">> \o NatToString(0 - n) ELSE NatToString(n)

Absent == [t |-> "absent"]

StrVal(s) == [t |-> "str", s |-> s]

NumVal(n) == [t |-> "num", n |-> n]

BoolVal(b) == [t |-> "bool", b |-> b]

IsAbsent(value) == value.t = "absent"

\* String(value) for a value that is not null or undefined
String(value) ==
  CASE value.t = "str" -> value.s
    [] value.t = "num" -> NumberToString(value.n)
    [] value.t = "bool" ->
         IF value.b THEN <<"t", "r", "u", "e">>
         ELSE <<"f", "a", "l", "s", "e">>

\* Array.prototype.join: null and undefined elements become the empty string
JoinElem(value) == IF IsAbsent(value) THEN <<>> ELSE String(value)

RECURSIVE join(_, _)
join(strs, sep) ==
  IF strs = <<>> THEN <<>>
  ELSE IF Len(strs) = 1 THEN strs[1]
  ELSE strs[1] \o sep \o join(Tail(strs), sep)

\* ToIntegerOrInfinity-relative index of Array.prototype.slice
RelIndex(k, len) == IF k < 0 THEN Max(len + k, 0) ELSE Min(k, len)

slice(arr, start, end) ==
  LET from == RelIndex(start, Len(arr))
      to == RelIndex(end, Len(arr))
  IN  IF from >= to THEN <<>> ELSE SubSeq(arr, from + 1, to)

(***************************************************************************)
(* Records                                                                 *)
(***************************************************************************)
Null == [t |-> "null"]

NullRow == Null

\* A record with the given cells (a function from column names to cell values)
Row(cells) == [t |-> "row", cells |-> cells]

IsNullRow(row) == row.t = "null"

\* row[col] on a record that is not null: a missing key reads as undefined
Get(row, col) == IF col \in DOMAIN row.cells THEN row.cells[col] ELSE Absent

Undefined == [some |-> FALSE]

Some(v) == [some |-> TRUE, v |-> v]

\* A destructuring default: it applies to undefined only
Default(o, d) == IF o.some THEN o.v ELSE d

(***************************************************************************)
(* process-excel: signature and the exact reducer                          *)
(***************************************************************************)
NullToken == <<"N", "U", "L", "L">>

\* NormalizeSignatureValue with toLowerCase() left out
NormalizeSignatureValueKeepCase(value) ==
  IF IsAbsent(value) THEN NullToken
  ELSE trim(String(value))

NormalizeSignatureValue(value) ==
  IF IsAbsent(value) THEN NullToken
  ELSE toLowerCase(trim(String(value)))

createSignature(row, columns) ==
  join([k \in 1..Len(columns) |-> NormalizeSignatureValue(Get(row, columns[k]))],
       <<" ">>)

\* ExactIteration with seen.set(signature, i) left out
ExactIterationNoSeen(acc, row, idx, columns) ==
  [seen |-> acc.seen,
   uniqueRows |-> Append(acc.uniqueRows, row),
   duplicatesFound |-> acc.duplicatesFound]

\* ExactIteration reporting the current index as the original
ExactIterationSelfIndex(acc, row, idx, columns) ==
  LET signature == createSignature(row, columns)
  IN  IF signature \notin DOMAIN acc.seen
      THEN [seen |-> (signature :> idx) @@ acc.seen,
            uniqueRows |-> Append(acc.uniqueRows, row),
            duplicatesFound |-> acc.duplicatesFound]
      ELSE [seen |-> acc.seen,
            uniqueRows |-> acc.uniqueRows,
            duplicatesFound |->
              Append(acc.duplicatesFound,
                     [original |-> signature,
                      duplicate |-> signature,
                      originalIndex |-> idx,
                      duplicateIndex |-> idx])]

\* Mutant: a duplicate replaces the remembered index of its signature
ExactIterationLatestIndex(acc, row, idx, columns) ==
  LET signature == createSignature(row, columns)
  IN  IF signature \notin DOMAIN acc.seen
      THEN [seen |-> (signature :> idx) @@ acc.seen,
            uniqueRows |-> Append(acc.uniqueRows, row),
            duplicatesFound |-> acc.duplicatesFound]
      ELSE [seen |-> (signature :> idx) @@ acc.seen,
            uniqueRows |-> acc.uniqueRows,
            duplicatesFound |->
              Append(acc.duplicatesFound,
                     [original |-> signature,
                      duplicate |-> signature,
                      originalIndex |-> acc.seen[signature],
                      duplicateIndex |-> idx])]

\* One pass of the loop body of removeExactDuplicates on row number idx
ExactIteration(acc, row, idx, columns) ==
  LET signature == createSignature(row, columns)
  IN  IF signature \notin DOMAIN acc.seen
      THEN [seen |-> (signature :> idx) @@ acc.seen,
            uniqueRows |-> Append(acc.uniqueRows, row),
            duplicatesFound |-> acc.duplicatesFound]
      ELSE [seen |-> acc.seen,
            uniqueRows |-> acc.uniqueRows,
            duplicatesFound |->
              Append(acc.duplicatesFound,
                     [original |-> signature,
                      duplicate |-> signature,
                      originalIndex |-> acc.seen[signature],
                      duplicateIndex |-> idx])]

EmptySeen == [signature \in {} |-> 0]

RECURSIVE ExactLoop(_, _, _, _)
ExactLoop(acc, data, idx, columns) ==
  IF idx >= Len(data) THEN acc
  ELSE ExactLoop(ExactIteration(acc, data[idx + 1], idx, columns),
                 data, idx + 1, columns)

\* removeExactDuplicates on rows none of which is null
removeExactDuplicates(data, columns) ==
  LET acc == ExactLoop([seen |-> EmptySeen, uniqueRows |-> <<>>,
                        duplicatesFound |-> <<>>], data, 0, columns)
  IN  [uniqueRows |-> acc.uniqueRows, duplicatesFound |-> acc.duplicatesFound]

(***************************************************************************)
(* Scores and the string distances of the natural library                  *)
(***************************************************************************)
Frac(n, d) == [n |-> n, d |-> d]

\* a >= b and a > b on fractions with positive denominators
Geq(a, b) == a.n * b.d >= b.n * a.d

Gt(a, b) == a.n * b.d > b.n * a.d

SameScore(a, b) == a.n * b.d = b.n * a.d

RECURSIVE LevFill(_, _, _, _)
LevFill(prev, c, b, row) ==
  IF Len(row) = Len(b) + 1 THEN row
  ELSE LET j == Len(row)
           cost == IF b[j] = c THEN 0 ELSE 1
       IN  LevFill(prev, c, b,
                   Append(row, Min(Min(prev[j + 1] + 1, row[j] + 1),
                                   prev[j] + cost)))

RECURSIVE LevRows(_, _, _, _)
LevRows(a, b, k, prev) ==
  IF k > Len(a) THEN prev[Len(b) + 1]
  ELSE LevRows(a, b, k + 1, LevFill(prev, a[k], b, <<prev[1] + 1>>))

\* natural.LevenshteinDistance with its default unit costs
LevenshteinDistance(a, b) ==
  LevRows(a, b, 1, [j \in 1..(Len(b) + 1) |-> j - 1])

\* The matching loop of the Jaro distance: for each character of s1 the first
\* unmatched equal character of s2 inside the window
RECURSIVE JaroFirst(_, _, _, _, _)
JaroFirst(c, s2, k, end, m2) ==
  IF k > end THEN 0
  ELSE IF k \notin m2 /\ s2[k] = c THEN k
  ELSE JaroFirst(c, s2, k + 1, end, m2)

RECURSIVE JaroMatch(_, _, _, _, _, _)
JaroMatch(s1, s2, k, window, m1, m2) ==
  IF k > Len(s1) THEN [m1 |-> m1, m2 |-> m2]
  ELSE LET start == Max(1, k - window)
           end == Min(k + window, Len(s2))
           hit == JaroFirst(s1[k], s2, start, end, m2)
       IN  IF hit = 0 THEN JaroMatch(s1, s2, k + 1, window, m1, m2)
           ELSE JaroMatch(s1, s2, k + 1, window, m1 \cup {k}, m2 \cup {hit})

RECURSIVE Pick(_, _, _)
Pick(s, idx, k) ==
  IF k > Len(s) THEN <<>>
  ELSE IF k \in idx THEN <<s[k]>> \o Pick(s, idx, k + 1)
  ELSE Pick(s, idx, k + 1)

\* The Jaro distance of two non-identical strings
JaroDistance(s1, s2) ==
  IF Len(s1) = 0 \/ Len(s2) = 0 THEN Frac(0, 1)
  ELSE LET window == (Max(Len(s1), Len(s2)) \div 2) - 1
           mt == JaroMatch(s1, s2, 1, window, {}, {})
           m == Cardinality(mt.m1)
           c1 == Pick(s1, mt.m1, 1)
           c2 == Pick(s2, mt.m2, 1)
           t2 == Cardinality({k \in 1..m : c1[k] # c2[k]})
       IN  IF m = 0 THEN Frac(0, 1)
           ELSE Frac(2 * m * m * Len(s2) + 2 * m * m * Len(s1)
                       + (2 * m - t2) * Len(s1) * Len(s2),
                     6 * m * Len(s1) * Len(s2))

RECURSIVE CommonPrefix(_, _, _)
CommonPrefix(s1, s2, l) ==
  IF l < 4 /\ l < Len(s1) /\ l < Len(s2) /\ s1[l + 1] = s2[l + 1]
  THEN CommonPrefix(s1, s2, l + 1)
  ELSE l

\* natural.JaroWinklerDistance: jaro + l * 0.1 * (1 - jaro)
JaroWinklerDistance(s1, s2) ==
  IF s1 = s2 THEN Frac(1, 1)
  ELSE LET jaro == JaroDistance(s1, s2)
           l == CommonPrefix(s1, s2, 0)
       IN  Frac(10 * jaro.n + l * (jaro.d - jaro.n), 10 * jaro.d)

\* The character bigrams of the words of a string
RECURSIVE WordLetterPairs(_, _)
WordLetterPairs(s, k) ==
  IF k >= Len(s) THEN <<>>
  ELSE IF IsSpace(s[k]) \/ IsSpace(s[k + 1]) THEN WordLetterPairs(s, k + 1)
  ELSE <<(<<s[k], s[k + 1]>>)>> \o WordLetterPairs(s, k + 1)

RECURSIVE RemoveFirst(_, _)
RemoveFirst(pairs, pair) ==
  IF pairs = <<>> THEN <<>>
  ELSE IF Head(pairs) = pair THEN Tail(pairs)
  ELSE <<Head(pairs)>> \o RemoveFirst(Tail(pairs), pair)

RECURSIVE PairIntersection(_, _)
PairIntersection(pairs1, pairs2) ==
  IF pairs1 = <<>> THEN 0
  ELSE IF \E k \in 1..Len(pairs2) : pairs2[k] = Head(pairs1)
  THEN 1 + PairIntersection(Tail(pairs1), RemoveFirst(pairs2, Head(pairs1)))
  ELSE PairIntersection(Tail(pairs1), pairs2)

\* natural.DiceCoefficient: 2 * shared bigrams / all bigrams, on the
\* lower-cased, trimmed strings
\* Mutant: the coefficient is taken over the pairs of the first string only
DiceCoefficientOverFirst(str1, str2) ==
  LET sanitized1 == trim(toLowerCase(str1))
      sanitized2 == trim(toLowerCase(str2))
      pairs1 == WordLetterPairs(sanitized1, 1)
      pairs2 == WordLetterPairs(sanitized2, 1)
  IN  IF Len(pairs1) = 0
      THEN IF sanitized1 = sanitized2 THEN Frac(1, 1) ELSE Frac(0, 1)
      ELSE Frac(2 * PairIntersection(pairs1, pairs2), 2 * Len(pairs1))

DiceCoefficient(str1, str2) ==
  LET sanitized1 == trim(toLowerCase(str1))
      sanitized2 == trim(toLowerCase(str2))
      pairs1 == WordLetterPairs(sanitized1, 1)
      pairs2 == WordLetterPairs(sanitized2, 1)
      union == Len(pairs1) + Len(pairs2)
  IN  IF union = 0
      THEN IF sanitized1 = sanitized2 THEN Frac(1, 1) ELSE Frac(0, 1)
      ELSE Frac(2 * PairIntersection(pairs1, pairs2), union)

(***************************************************************************)
(* process-excel: the fuzzy reducer                                        *)
(***************************************************************************)
\* calculateSimilarity dividing the distance by the length of str1
calculateSimilarityByFirstLength(str1, str2, algorithm) ==
  CASE algorithm = "dice" -> DiceCoefficient(str1, str2)
    [] algorithm = "jaro-winkler" -> JaroWinklerDistance(str1, str2)
    [] algorithm = "levenshtein" ->
         LET maxLen == Len(str1)
         IN  IF maxLen = 0 THEN Frac(1, 1)
             ELSE Frac(maxLen - LevenshteinDistance(str1, str2), maxLen)
    [] OTHER -> JaroWinklerDistance(str1, str2)

calculateSimilarity(str1, str2, algorithm) ==
  CASE algorithm = "dice" -> DiceCoefficient(str1, str2)
    [] algorithm = "jaro-winkler" -> JaroWinklerDistance(str1, str2)
    [] algorithm = "levenshtein" ->
         LET maxLen == Max(Len(str1), Len(str2))
         IN  IF maxLen = 0 THEN Frac(1, 1)
             ELSE Frac(maxLen - LevenshteinDistance(str1, str2), maxLen)
    [] OTHER -> JaroWinklerDistance(str1, str2)

NoMatch == [found |-> FALSE]

\* BetterMatch replacing the best match on an equal score as well
BetterMatchOnTie(bestMatch, existing, score, threshold) ==
  IF Geq(score, threshold) /\ (~bestMatch.found \/ Geq(score, bestMatch.score))
  THEN [found |-> TRUE, signature |-> existing.signature,
        index |-> existing.index, score |-> score]
  ELSE bestMatch

\* Mutant: a score equal to the threshold does not qualify
BetterMatchAboveThreshold(bestMatch, existing, score, threshold) ==
  IF Gt(score, threshold) /\ (~bestMatch.found \/ Gt(score, bestMatch.score))
  THEN [found |-> TRUE, signature |-> existing.signature,
        index |-> existing.index, score |-> score]
  ELSE bestMatch

\* The update of bestMatch for one existing signature
BetterMatch(bestMatch, existing, score, threshold) ==
  IF Geq(score, threshold) /\ (~bestMatch.found \/ Gt(score, bestMatch.score))
  THEN [found |-> TRUE, signature |-> existing.signature,
        index |-> existing.index, score |-> score]
  ELSE bestMatch

RECURSIVE SimilarLoop(_, _, _, _, _, _)
SimilarLoop(signature, existingSignatures, k, bestMatch, threshold, algorithm) ==
  IF k > Len(existingSignatures) THEN bestMatch
  ELSE SimilarLoop(signature, existingSignatures, k + 1,
                   BetterMatch(bestMatch, existingSignatures[k],
                               calculateSimilarity(signature,
                                                   existingSignatures[k].signature,
                                                   algorithm),
                               threshold),
                   threshold, algorithm)

\* Mutant: only the most recently accepted signature is compared
findSimilarMatchLatestOnly(signature, existingSignatures, threshold, algorithm) ==
  LET bestMatch == SimilarLoop(signature, existingSignatures,
                               Max(1, Len(existingSignatures)), NoMatch,
                               threshold, algorithm)
  IN  IF bestMatch.found
      THEN [found |-> TRUE, matchedSignature |-> bestMatch.signature,
            matchedIndex |-> bestMatch.index, score |-> bestMatch.score]
      ELSE NoMatch

findSimilarMatch(signature, existingSignatures, threshold, algorithm) ==
  LET bestMatch == SimilarLoop(signature, existingSignatures, 1, NoMatch,
                               threshold, algorithm)
  IN  IF bestMatch.found
      THEN [found |-> TRUE, matchedSignature |-> bestMatch.signature,
            matchedIndex |-> bestMatch.index, score |-> bestMatch.score]
      ELSE NoMatch

\* FuzzyIteration pushing the row on uniqueRows when it is a duplicate too
FuzzyIterationKeepDuplicate(acc, row, idx, columns, threshold, algorithm) ==
  LET signature == createSignature(row, columns)
      matchResult == findSimilarMatch(signature, acc.uniqueSignatures,
                                      threshold, algorithm)
  IN  IF ~matchResult.found
      THEN [uniqueRows |-> Append(acc.uniqueRows, row),
            uniqueSignatures |->
              Append(acc.uniqueSignatures, [signature |-> signature, index |-> idx]),
            duplicatesFound |-> acc.duplicatesFound]
      ELSE [uniqueRows |-> Append(acc.uniqueRows, row),
            uniqueSignatures |-> acc.uniqueSignatures,
            duplicatesFound |->
              Append(acc.duplicatesFound,
                     [original |-> matchResult.matchedSignature,
                      duplicate |-> signature,
                      originalIndex |-> matchResult.matchedIndex,
                      duplicateIndex |-> idx,
                      score |-> matchResult.score])]

\* FuzzyIteration remembering the signature of a duplicate as well, so that
\* later records are compared against merged records too
FuzzyIterationRememberAll(acc, row, idx, columns, threshold, algorithm) ==
  LET signature == createSignature(row, columns)
      matchResult == findSimilarMatch(signature, acc.uniqueSignatures,
                                      threshold, algorithm)
  IN  IF ~matchResult.found
      THEN [uniqueRows |-> Append(acc.uniqueRows, row),
            uniqueSignatures |->
              Append(acc.uniqueSignatures, [signature |-> signature, index |-> idx]),
            duplicatesFound |-> acc.duplicatesFound]
      ELSE [uniqueRows |-> acc.uniqueRows,
            uniqueSignatures |->
              Append(acc.uniqueSignatures, [signature |-> signature, index |-> idx]),
            duplicatesFound |->
              Append(acc.duplicatesFound,
                     [original |-> matchResult.matchedSignature,
                      duplicate |-> signature,
                      originalIndex |-> matchResult.matchedIndex,
                      duplicateIndex |-> idx,
                      score |-> matchResult.score])]

\* One pass of the loop body of removeFuzzyDuplicates on row number idx
FuzzyIteration(acc, row, idx, columns, threshold, algorithm) ==
  LET signature == createSignature(row, columns)
      matchResult == findSimilarMatch(signature, acc.uniqueSignatures,
                                      threshold, algorithm)
  IN  IF ~matchResult.found
      THEN [uniqueRows |-> Append(acc.uniqueRows, row),
            uniqueSignatures |->
              Append(acc.uniqueSignatures, [signature |-> signature, index |-> idx]),
            duplicatesFound |-> acc.duplicatesFound]
      ELSE [uniqueRows |-> acc.uniqueRows,
            uniqueSignatures |-> acc.uniqueSignatures,
            duplicatesFound |->
              Append(acc.duplicatesFound,
                     [original |-> matchResult.matchedSignature,
                      duplicate |-> signature,
                      originalIndex |-> matchResult.matchedIndex,
                      duplicateIndex |-> idx,
                      score |-> matchResult.score])]

RECURSIVE FuzzyLoop(_, _, _, _, _, _)
FuzzyLoop(acc, data, idx, columns, threshold, algorithm) ==
  IF idx >= Len(data) THEN acc
  ELSE FuzzyLoop(FuzzyIteration(acc, data[idx + 1], idx, columns, threshold,
                                algorithm),
                 data, idx + 1, columns, threshold, algorithm)

\* removeFuzzyDuplicates on rows none of which is null
removeFuzzyDuplicates(data, columns, threshold, algorithm) ==
  LET acc == FuzzyLoop([uniqueRows |-> <<>>, uniqueSignatures |-> <<>>,
                        duplicatesFound |-> <<>>],
                       data, 0, columns, threshold, algorithm)
  IN  [uniqueRows |-> acc.uniqueRows, duplicatesFound |-> acc.duplicatesFound]

removeDuplicateRows(data, columns, comparisonMode, threshold, algorithm) ==
  IF comparisonMode = "exact" THEN removeExactDuplicates(data, columns)
  ELSE removeFuzzyDuplicates(data, columns, threshold, algorithm)

(***************************************************************************)
(* Requests                                                                *)
(***************************************************************************)
RowA == Row("Name" :> StrVal(<<"A", "b">>))

RowB == Row(("Name" :> StrVal(<<" ", "a", "B", " ">>)) @@ ("Email" :> Absent))

RowC == Row(("Name" :> StrVal(<<"a", "b", "a">>)) @@ ("Email" :> NumVal(1)))

RowD == Row(("Name" :> StrVal(<<"b", "a", "b">>)) @@ ("Email" :> StrVal(<<"1", " ">>)))

SampleRows == {RowA, RowB, RowC, RowD}

\* The five rows of the documented test sheet (columns Name and Email)
DocumentedRows ==
  <<Row(("Name" :> StrVal(<<"J", "o", "h", "n", " ", "D", "o", "e">>))
        @@ ("Email" :> StrVal(<<"j", "o", "h", "n", "@", "e", "m", "a", "i", "l", ".", "c", "o", "m">>))),
    Row(("Name" :> StrVal(<<"J", "a", "n", "e", " ", "S", "m", "i", "t", "h">>))
        @@ ("Email" :> StrVal(<<"j", "a", "n", "e", "@", "e", "m", "a", "i", "l", ".", "c", "o", "m">>))),
    Row(("Name" :> StrVal(<<"J", "o", "h", "n", " ", "D", "o", "e">>))
        @@ ("Email" :> StrVal(<<"j", "o", "h", "n", "@", "e", "m", "a", "i", "l", ".", "c", "o", "m">>))),
    Row(("Name" :> StrVal(<<"B", "o", "b", " ", "W", "i", "l", "s", "o", "n">>))
        @@ ("Email" :> StrVal(<<"b", "o", "b", "@", "e", "m", "a", "i", "l", ".", "c", "o", "m">>))),
    Row(("Name" :> StrVal(<<"J", "a", "n", "e", " ", "S", "m", "i", "t", "h">>))
        @@ ("Email" :> StrVal(<<"j", "a", "n", "e", "@", "e", "m", "a", "i", "l", ".", "c", "o", "m">>)))>>

Missing == [t |-> "missing"]

NotArray == [t |-> "notarray"]

Array(v) == [t |-> "array", v |-> v]

RowArrays(rows) == {Array(v) : v \in UNION {[1..n -> rows] : n \in 1..MaxRows}}

ColumnSelections ==
  {<<"Name">>, <<"Email">>, <<"Name", "Email">>, <<"Email", "Name">>}

Algorithms == {"dice", "jaro-winkler", "levenshtein"}

SliceChoices ==
  {<<Undefined, Undefined>>, <<Some(1), Undefined>>, <<Some(0), Some(2)>>,
   <<Some(1), Some(MaxRows + 1)>>, <<Some(2), Some(1)>>,
   <<Some(-1), Undefined>>, <<Some(0), Some(-1)>>}

DedupRequest(data, columns, mode, threshold, algorithm, sl) ==
  [op |-> "dedup", data |-> data, columns |-> columns, comparisonMode |-> mode,
   similarityThreshold |-> threshold, similarityAlgorithm |-> algorithm,
   sliceStart |-> sl[1], sliceEnd |-> sl[2]]

ExactRequests ==
  {DedupRequest(data, Array(columns), Some("exact"), Undefined, Undefined, sl) :
     data \in RowArrays(SampleRows), columns \in ColumnSelections,
     sl \in SliceChoices}

FuzzyRequests ==
  {DedupRequest(data, Array(columns), Some("fuzzy"), Some(threshold),
                Some(algorithm), sl) :
     data \in RowArrays(SampleRows),
     columns \in {<<"Name">>, <<"Name", "Email">>},
     threshold \in {Frac(0, 1), Frac(1, 2), Frac(1, 1)},
     algorithm \in Algorithms,
     sl \in {<<Undefined, Undefined>>, <<Some(1), Undefined>>}}

InvalidDedupRequests ==
  {DedupRequest(data, columns, Some(mode), Undefined, Undefined, sl) :
     data \in {Missing, NotArray, Array(<<>>), Array(<<RowA, RowB>>)},
     columns \in {Missing, NotArray, Array(<<>>), Array(<<"Name">>)},
     mode \in {"exact", "fuzzy"},
     sl \in {<<Undefined, Undefined>>, <<Some(0), Some(1)>>}}

FaultRequests ==
  {DedupRequest(data, Array(<<"Name">>), Some(mode), Undefined, Undefined,
                <<Undefined, Undefined>>) :
     data \in RowArrays({RowA, NullRow}), mode \in {"exact", "fuzzy"}}

DocumentedRequests ==
  {DedupRequest(Array(DocumentedRows), Array(<<"Name", "Email">>), Some("exact"),
                Undefined, Undefined, <<Undefined, Undefined>>)}

\* Two records that differ on both columns but whose values, joined with a
\* space, read the same
RowF == Row(("Name" :> StrVal(<<"a", " ", "b">>)) @@ ("Email" :> StrVal(<<"c">>)))

RowG == Row(("Name" :> StrVal(<<"a">>)) @@ ("Email" :> StrVal(<<"b", " ", "c">>)))

SpacedRequests ==
  {DedupRequest(Array(data), Array(columns), Some("exact"), Undefined, Undefined,
                <<Undefined, Undefined>>) :
     data \in {<<RowF, RowG>>, <<RowG, RowA, RowF>>},
     columns \in {<<"Name", "Email">>, <<"Email", "Name">>}}

DedupRequests ==
  ExactRequests \cup FuzzyRequests \cup InvalidDedupRequests
    \cup FaultRequests \cup DocumentedRequests \cup SpacedRequests

\* Requests that omit the options, name an algorithm the scorer does not know,
\* or carry a threshold outside [0, 1]
OptionRows == {RowA, RowB, RowC}

ThresholdChoices ==
  {Undefined, Some(Frac(0, 1)), Some(Frac(4, 5)), Some(Frac(3, 2)),
   Some(Frac(-1, 2))}

AlgorithmChoices == {Undefined, Some("jaro-winkler"), Some("dice"), Some("cosine")}

DedupOptionRequests ==
  {DedupRequest(data, Array(<<"Name">>), mode, threshold, algorithm,
                <<Undefined, Undefined>>) :
     data \in RowArrays(OptionRows), mode \in {Undefined, Some("fuzzy")},
     threshold \in ThresholdChoices, algorithm \in AlgorithmChoices}


(***************************************************************************)
(* process-excel: POST                                                     *)
(***************************************************************************)
NoResponse == [status |-> 0]

ErrorResponse(status, message) == [status |-> status, body |-> [error |-> message]]

\* InvalidArray with the length test left out
InvalidArrayAllowEmpty(x) == x.t # "array"

\* !x || !Array.isArray(x) || x.length === 0
InvalidArray(x) == IF x.t = "array" THEN Len(x.v) = 0 ELSE TRUE

\* SimilarityAlgorithm defaulting to the algorithm of the other endpoint
SimilarityAlgorithmDice == Default(request.similarityAlgorithm, "dice")

ComparisonMode == Default(request.comparisonMode, "fuzzy")

SimilarityThreshold == Default(request.similarityThreshold, Frac(4, 5))

SimilarityAlgorithm == Default(request.similarityAlgorithm, "jaro-winkler")

\* SlicedData with the start of the range ignored
SlicedDataFromZero(data, sliceStart, sliceEnd) ==
  slice(data, 0, Default(sliceEnd, Len(data)))

SlicedData(data, sliceStart, sliceEnd) ==
  LET endIndex == Default(sliceEnd, Len(data))
  IN  slice(data, Default(sliceStart, 0), endIndex)

\* The output row {...row, isni}: the link is built from the joined raw values
WithIsni(row, columns) ==
  LET mergeColumns == join([k \in 1..Len(columns) |-> JoinElem(Get(row, columns[k]))],
                           <<" ">>)
  IN  Row(("isni" :> [t |-> "link", query |-> mergeColumns, text |-> mergeColumns])
            @@ row.cells)

\* RowAfterSpread for a callback that sets row.isni and returns row
RowAfterAssign(row, columns) == WithIsni(row, columns)

\* What the map callback leaves in the row it is given: {...row, isni} copies
\* the fields of row into a new object and writes nothing to row
RowAfterSpread(row, columns) == row

\* The positions of slicedData whose rows were pushed on uniqueRows; the
\* pushed rows are the objects of data themselves
AcceptedIndexes(mode, seenMap, signatures) ==
  IF mode = "exact" THEN {seenMap[sig] : sig \in DOMAIN seenMap}
  ELSE {signatures[k].index : k \in 1..Len(signatures)}

\* The caller's data after rawUniqueRows.map(...) has run
DataAfterMap(data, sliceStart, columns, accepted) ==
  LET from == RelIndex(Default(sliceStart, 0), Len(data))
  IN  [p \in 1..Len(data) |->
         IF (p - 1 - from) \in accepted THEN RowAfterSpread(data[p], columns)
         ELSE data[p]]

\* DedupBody counting the reported duplicates as removedCount
DedupBodyCountingDuplicates(data, columns, rawUniqueRows, duplicates) ==
  LET rows == [k \in 1..Len(rawUniqueRows) |-> WithIsni(rawUniqueRows[k], columns)]
  IN  [uniqueRows |-> rows,
       originalCount |-> Len(data),
       uniqueCount |-> Len(rows),
       removedCount |-> Len(duplicates),
       duplicatesFound |-> duplicates]

DedupBody(data, columns, rawUniqueRows, duplicates) ==
  LET rows == [k \in 1..Len(rawUniqueRows) |-> WithIsni(rawUniqueRows[k], columns)]
  IN  [uniqueRows |-> rows,
       originalCount |-> Len(data),
       uniqueCount |-> Len(rows),
       removedCount |-> Len(data) - Len(rows),
       duplicatesFound |-> duplicates]

\* The body POST answers a valid request with, none of its rows being null
DedupAnswer(req, comparisonMode, threshold, algorithm) ==
  LET sliced == SlicedData(req.data.v, req.sliceStart, req.sliceEnd)
      result == removeDuplicateRows(sliced, req.columns.v, comparisonMode,
                                    threshold, algorithm)
  IN  DedupBody(req.data.v, req.columns.v, result.uniqueRows,
                result.duplicatesFound)

DedupRejectData ==
  /\ pc = "start" /\ request.op = "dedup"
  /\ InvalidArray(request.data)
  /\ response' = ErrorResponse(400, "Invalid or empty data")
  /\ pc' = "done"
  /\ UNCHANGED <<pageVars, request, i, slicedData, seen, uniqueRows, uniqueSignatures,
                 duplicatesFound, file2Values, matches, matchedCount,
                 unmatchedCount, signaturesBuilt, pairsScored>>

DedupRejectColumns ==
  /\ pc = "start" /\ request.op = "dedup"
  /\ ~InvalidArray(request.data)
  /\ InvalidArray(request.columns)
  /\ response' = ErrorResponse(400, "No columns selected")
  /\ pc' = "done"
  /\ UNCHANGED <<pageVars, request, i, slicedData, seen, uniqueRows, uniqueSignatures,
                 duplicatesFound, file2Values, matches, matchedCount,
                 unmatchedCount, signaturesBuilt, pairsScored>>

DedupSlice ==
  /\ pc = "start" /\ request.op = "dedup"
  /\ ~InvalidArray(request.data)
  /\ ~InvalidArray(request.columns)
  /\ slicedData' = SlicedData(request.data.v, request.sliceStart, request.sliceEnd)
  /\ pc' = "reduce"
  /\ UNCHANGED <<pageVars, request, i, seen, uniqueRows, uniqueSignatures,
                 duplicatesFound, file2Values, matches, matchedCount,
                 unmatchedCount, signaturesBuilt, pairsScored, response>>

ExactStep ==
  /\ pc = "reduce" /\ ComparisonMode = "exact"
  /\ i < Len(slicedData)
  /\ ~IsNullRow(slicedData[i + 1])
  /\ LET acc == ExactIteration([seen |-> seen, uniqueRows |-> uniqueRows,
                                duplicatesFound |-> duplicatesFound],
                               slicedData[i + 1], i, request.columns.v)
     IN  /\ seen' = acc.seen
         /\ uniqueRows' = acc.uniqueRows
         /\ duplicatesFound' = acc.duplicatesFound
  /\ signaturesBuilt' = signaturesBuilt + 1
  /\ i' = i + 1
  /\ UNCHANGED <<pageVars, request, pc, slicedData, uniqueSignatures, file2Values, matches,
                 matchedCount, unmatchedCount, pairsScored, response>>

FuzzyStep ==
  /\ pc = "reduce" /\ ComparisonMode # "exact"
  /\ i < Len(slicedData)
  /\ ~IsNullRow(slicedData[i + 1])
  /\ LET acc == FuzzyIteration([uniqueRows |-> uniqueRows,
                                uniqueSignatures |-> uniqueSignatures,
                                duplicatesFound |-> duplicatesFound],
                               slicedData[i + 1], i, request.columns.v,
                               SimilarityThreshold, SimilarityAlgorithm)
     IN  /\ uniqueRows' = acc.uniqueRows
         /\ uniqueSignatures' = acc.uniqueSignatures
         /\ duplicatesFound' = acc.duplicatesFound
  /\ signaturesBuilt' = signaturesBuilt + 1
  /\ pairsScored' = pairsScored + Len(uniqueSignatures)
  /\ i' = i + 1
  /\ UNCHANGED <<pageVars, request, pc, slicedData, seen, file2Values, matches,
                 matchedCount, unmatchedCount, response>>

\* Mutant: the fault is swallowed and the records processed so far are answered
DedupThrowPartial ==
  /\ pc = "reduce"
  /\ i < Len(slicedData)
  /\ IsNullRow(slicedData[i + 1])
  /\ response' = [status |-> 200,
                  body |-> DedupBody(request.data.v, request.columns.v,
                                     uniqueRows, duplicatesFound)]
  /\ pc' = "done"
  /\ UNCHANGED <<pageVars, request, i, slicedData, seen, uniqueRows, uniqueSignatures,
                 duplicatesFound, file2Values, matches, matchedCount,
                 unmatchedCount, signaturesBuilt, pairsScored>>

\* row[col] on a null row throws inside createSignature; POST catches it
DedupThrow ==
  /\ pc = "reduce"
  /\ i < Len(slicedData)
  /\ IsNullRow(slicedData[i + 1])
  /\ response' = ErrorResponse(500, "Internal server error")
  /\ pc' = "done"
  /\ UNCHANGED <<pageVars, request, i, slicedData, seen, uniqueRows, uniqueSignatures,
                 duplicatesFound, file2Values, matches, matchedCount,
                 unmatchedCount, signaturesBuilt, pairsScored>>

DedupRespond ==
  /\ pc = "reduce"
  /\ i = Len(slicedData)
  /\ response' = [status |-> 200,
                  body |-> DedupBody(request.data.v, request.columns.v,
                                     uniqueRows, duplicatesFound)]
  /\ request' =
       [request EXCEPT
          !.data = Array(DataAfterMap(request.data.v, request.sliceStart,
                                      request.columns.v,
                                      AcceptedIndexes(ComparisonMode, seen,
                                                      uniqueSignatures)))]
  /\ pc' = "done"
  /\ UNCHANGED <<pageVars, i, slicedData, seen, uniqueRows, uniqueSignatures,
                 duplicatesFound, file2Values, matches, matchedCount,
                 unmatchedCount, signaturesBuilt, pairsScored>>

(***************************************************************************)
(* match-columns                                                           *)
(***************************************************************************)
RowBlank == Row("Name" :> StrVal(<<" ", " ">>))

SourceRows == {RowB, RowD, RowBlank}

TargetRows == {RowA, RowC, RowBlank}

MatchRequest(file1Data, file2Data, file1Column, file2Column, extra1, extra2, threshold, algorithm) ==
  [op |-> "match", file1Data |-> file1Data, file2Data |-> file2Data,
   file1Column |-> file1Column, file2Column |-> file2Column,
   file1AdditionalColumns |-> extra1, file2AdditionalColumns |-> extra2,
   similarityThreshold |-> threshold, similarityAlgorithm |-> algorithm]

TargetArrays ==
  {Array(v) : v \in UNION {[1..n -> TargetRows] : n \in 1..MaxTargets}}

ValidMatchRequests ==
  {MatchRequest(file1Data, file2Data, Some(column), Some(column), Undefined,
                Undefined, Some(threshold), Some(algorithm)) :
     file1Data \in RowArrays(SourceRows), file2Data \in TargetArrays,
     column \in {"Name", "Email"},
     threshold \in {Frac(1, 2), Frac(1, 1)},
     algorithm \in Algorithms}

ExtraMatchRequests ==
  {MatchRequest(Array(<<RowD, RowB>>), Array(<<RowC, RowA>>), Some("Name"),
                Some("Name"), extra1, extra2, Some(Frac(1, 2)), Some("dice")) :
     extra1 \in {Undefined, Some(<<"Email">>)},
     extra2 \in {Undefined, Some(<<"Email", "Name">>)}}

InvalidMatchRequests ==
  {MatchRequest(file1Data, file2Data, file1Column, file2Column, Undefined,
                Undefined, Undefined, Undefined) :
     file1Data \in {Missing, NotArray, Array(<<>>), Array(<<RowB>>)},
     file2Data \in {Missing, NotArray, Array(<<>>), Array(<<RowA>>)},
     file1Column \in {Undefined, Some(""), Some("Name")},
     file2Column \in {Undefined, Some(""), Some("Name")}}

FaultMatchRequests ==
  {MatchRequest(file1Data, file2Data, Some("Name"), Some("Name"), Undefined,
                Undefined, Some(Frac(1, 2)), Some("dice")) :
     file1Data \in {Array(<<RowB>>), Array(<<RowB, NullRow>>)},
     file2Data \in {Array(<<RowA>>), Array(<<RowA, NullRow>>)}}

MatchRequests ==
  ValidMatchRequests \cup ExtraMatchRequests \cup InvalidMatchRequests
    \cup FaultMatchRequests

OptionTargetArrays ==
  {Array(<<RowC>>), Array(<<RowA>>), Array(<<RowA, RowC>>), Array(<<RowC, RowC>>)}

MatchOptionRequests ==
  {MatchRequest(file1Data, file2Data, Some(column), Some(column), Undefined,
                Undefined, threshold, algorithm) :
     file1Data \in RowArrays({RowD, RowBlank}), file2Data \in OptionTargetArrays,
     column \in {"Name", "Email"},
     threshold \in ThresholdChoices, algorithm \in AlgorithmChoices}

OptionRequests ==
  DedupOptionRequests \cup MatchOptionRequests \cup InvalidDedupRequests
    \cup FaultRequests \cup InvalidMatchRequests \cup FaultMatchRequests

\* !column: undefined or the empty string
Falsy(column) == IF column.some THEN column.v = "" ELSE TRUE

MatchThreshold == Default(request.similarityThreshold, Frac(4, 5))

MatchAlgorithm == Default(request.similarityAlgorithm, "dice")

\* normalizeValue answering absent values with the token of createSignature
normalizeValueNullToken(value) ==
  IF IsAbsent(value) THEN NullToken
  ELSE toLowerCase(trim(String(value)))

normalizeValue(value) ==
  IF IsAbsent(value) THEN <<>>
  ELSE toLowerCase(trim(String(value)))

calculateSimilarityMatch(str1, str2, algorithm) ==
  IF Len(str1) = 0 THEN Frac(0, 1)
  ELSE IF Len(str2) = 0 THEN Frac(0, 1)
  ELSE CASE algorithm = "dice" -> DiceCoefficient(str1, str2)
         [] algorithm = "jaro-winkler" -> JaroWinklerDistance(str1, str2)
         [] algorithm = "levenshtein" ->
              LET maxLen == Max(Len(str1), Len(str2))
              IN  IF maxLen = 0 THEN Frac(1, 1)
                  ELSE Frac(maxLen - LevenshteinDistance(str1, str2), maxLen)
         [] OTHER -> DiceCoefficient(str1, str2)

\* BetterEntry replacing the best match on an equal score as well
BetterEntryOnTie(bestMatch, entry, score, threshold) ==
  IF Geq(score, threshold) /\ (~bestMatch.found \/ Geq(score, bestMatch.score))
  THEN [found |-> TRUE, index |-> entry.index, score |-> score, row |-> entry.row]
  ELSE bestMatch

\* The update of bestMatch for one entry of file2Values
BetterEntry(bestMatch, entry, score, threshold) ==
  IF Geq(score, threshold) /\ (~bestMatch.found \/ Gt(score, bestMatch.score))
  THEN [found |-> TRUE, index |-> entry.index, score |-> score, row |-> entry.row]
  ELSE bestMatch

RECURSIVE BestLoop(_, _, _, _, _, _)
BestLoop(searchValue, entries, k, bestMatch, threshold, algorithm) ==
  IF k > Len(entries) THEN bestMatch
  ELSE BestLoop(searchValue, entries, k + 1,
                BetterEntry(bestMatch, entries[k],
                            calculateSimilarityMatch(searchValue, entries[k].value,
                                                     algorithm),
                            threshold),
                threshold, algorithm)

\* findBestMatch without the early return for an empty search value
findBestMatchAlwaysScoring(searchValue, entries, threshold, algorithm) ==
  BestLoop(searchValue, entries, 1, NoMatch, threshold, algorithm)

findBestMatch(searchValue, entries, threshold, algorithm) ==
  IF Len(searchValue) = 0 THEN NoMatch
  ELSE BestLoop(searchValue, entries, 1, NoMatch, threshold, algorithm)

AdditionalData(row, columns) == [c \in {columns[k] : k \in 1..Len(columns)} |-> Get(row, c)]

NoData == [c \in {} |-> Absent]

\* MatchEntry numbering the source rows from 1
MatchEntryOneBased(idx, file1Row, bestMatch, file1Column, file2Column, extra1, extra2) ==
  [file1RowIndex |-> idx + 1,
   file2RowIndex |-> IF bestMatch.found THEN NumVal(bestMatch.index) ELSE Null,
   file1Value |-> Get(file1Row, file1Column),
   file2Value |-> IF bestMatch.found /\ ~IsAbsent(Get(bestMatch.row, file2Column))
                  THEN Get(bestMatch.row, file2Column) ELSE Null,
   score |-> IF bestMatch.found THEN bestMatch.score ELSE Frac(0, 1),
   file1AdditionalData |-> AdditionalData(file1Row, extra1),
   file2AdditionalData |-> IF bestMatch.found
                           THEN AdditionalData(bestMatch.row, extra2) ELSE NoData]

\* MatchEntry with the score of an unmatched row defaulting to 1
MatchEntryDefaultOne(idx, file1Row, bestMatch, file1Column, file2Column, extra1, extra2) ==
  [file1RowIndex |-> idx,
   file2RowIndex |-> IF bestMatch.found THEN NumVal(bestMatch.index) ELSE Null,
   file1Value |-> Get(file1Row, file1Column),
   file2Value |-> IF bestMatch.found /\ ~IsAbsent(Get(bestMatch.row, file2Column))
                  THEN Get(bestMatch.row, file2Column) ELSE Null,
   score |-> IF bestMatch.found THEN bestMatch.score ELSE Frac(1, 1),
   file1AdditionalData |-> AdditionalData(file1Row, extra1),
   file2AdditionalData |-> IF bestMatch.found
                           THEN AdditionalData(bestMatch.row, extra2) ELSE NoData]

\* The entry pushed on matches for source row number idx
MatchEntry(idx, file1Row, bestMatch, file1Column, file2Column, extra1, extra2) ==
  [file1RowIndex |-> idx,
   file2RowIndex |-> IF bestMatch.found THEN NumVal(bestMatch.index) ELSE Null,
   file1Value |-> Get(file1Row, file1Column),
   file2Value |-> IF bestMatch.found /\ ~IsAbsent(Get(bestMatch.row, file2Column))
                  THEN Get(bestMatch.row, file2Column) ELSE Null,
   score |-> IF bestMatch.found THEN bestMatch.score ELSE Frac(0, 1),
   file1AdditionalData |-> AdditionalData(file1Row, extra1),
   file2AdditionalData |-> IF bestMatch.found
                           THEN AdditionalData(bestMatch.row, extra2) ELSE NoData]

MatchBody(allMatches, file1Data, file2Data, matched, unmatched) ==
  [matches |-> allMatches,
   totalFile1Rows |-> Len(file1Data),
   totalFile2Rows |-> Len(file2Data),
   matchedCount |-> matched,
   unmatchedCount |-> unmatched]

\* file2Data.map(...) on target rows none of which is null
File2Values(file2Data, file2Column) ==
  [k \in 1..Len(file2Data) |->
     [index |-> k - 1,
      value |-> normalizeValue(Get(file2Data[k], file2Column)),
      row |-> file2Data[k]]]

\* One pass of the loop over file1Data on source row number idx
MatchIteration(acc, idx, file1Row, entries, req, threshold, algorithm) ==
  LET file1Value == normalizeValue(Get(file1Row, req.file1Column.v))
      bestMatch == findBestMatch(file1Value, entries, threshold, algorithm)
  IN  [matches |->
         Append(acc.matches,
                MatchEntry(idx, file1Row, bestMatch, req.file1Column.v,
                           req.file2Column.v,
                           Default(req.file1AdditionalColumns, <<>>),
                           Default(req.file2AdditionalColumns, <<>>))),
       matchedCount |->
         IF bestMatch.found THEN acc.matchedCount + 1 ELSE acc.matchedCount,
       unmatchedCount |->
         IF bestMatch.found THEN acc.unmatchedCount ELSE acc.unmatchedCount + 1]

RECURSIVE MatchLoop(_, _, _, _, _, _)
MatchLoop(acc, idx, entries, req, threshold, algorithm) ==
  IF idx >= Len(req.file1Data.v) THEN acc
  ELSE MatchLoop(MatchIteration(acc, idx, req.file1Data.v[idx + 1], entries, req,
                                threshold, algorithm),
                 idx + 1, entries, req, threshold, algorithm)

\* The body POST answers a valid request with, none of its rows being null
MatchColumns(req, threshold, algorithm) ==
  LET entries == File2Values(req.file2Data.v, req.file2Column.v)
      acc == MatchLoop([matches |-> <<>>, matchedCount |-> 0,
                        unmatchedCount |-> 0],
                       0, entries, req, threshold, algorithm)
  IN  MatchBody(acc.matches, req.file1Data.v, req.file2Data.v, acc.matchedCount,
                acc.unmatchedCount)

MatchRejectFile1 ==
  /\ pc = "start" /\ request.op = "match"
  /\ InvalidArray(request.file1Data)
  /\ response' = ErrorResponse(400, "Invalid or empty data for file 1")
  /\ pc' = "done"
  /\ UNCHANGED <<pageVars, request, i, slicedData, seen, uniqueRows, uniqueSignatures,
                 duplicatesFound, file2Values, matches, matchedCount,
                 unmatchedCount, signaturesBuilt, pairsScored>>

MatchRejectFile2 ==
  /\ pc = "start" /\ request.op = "match"
  /\ ~InvalidArray(request.file1Data)
  /\ InvalidArray(request.file2Data)
  /\ response' = ErrorResponse(400, "Invalid or empty data for file 2")
  /\ pc' = "done"
  /\ UNCHANGED <<pageVars, request, i, slicedData, seen, uniqueRows, uniqueSignatures,
                 duplicatesFound, file2Values, matches, matchedCount,
                 unmatchedCount, signaturesBuilt, pairsScored>>

MatchRejectColumns ==
  /\ pc = "start" /\ request.op = "match"
  /\ ~InvalidArray(request.file1Data)
  /\ ~InvalidArray(request.file2Data)
  /\ IF Falsy(request.file1Column) THEN TRUE ELSE Falsy(request.file2Column)
  /\ response' = ErrorResponse(400, "Please select a column from each file")
  /\ pc' = "done"
  /\ UNCHANGED <<pageVars, request, i, slicedData, seen, uniqueRows, uniqueSignatures,
                 duplicatesFound, file2Values, matches, matchedCount,
                 unmatchedCount, signaturesBuilt, pairsScored>>

MatchValid ==
  /\ request.op = "match"
  /\ ~InvalidArray(request.file1Data)
  /\ ~InvalidArray(request.file2Data)
  /\ ~Falsy(request.file1Column)
  /\ ~Falsy(request.file2Column)

\* file2Data.map(...): normalizeValue of every target value, once
MatchPrepare ==
  /\ pc = "start" /\ MatchValid
  /\ \A k \in 1..Len(request.file2Data.v) : ~IsNullRow(request.file2Data.v[k])
  /\ file2Values' = File2Values(request.file2Data.v, request.file2Column.v)
  /\ pc' = "match"
  /\ UNCHANGED <<pageVars, request, i, slicedData, seen, uniqueRows, uniqueSignatures,
                 duplicatesFound, matches, matchedCount, unmatchedCount,
                 signaturesBuilt, pairsScored, response>>

\* row[file2Column] on a null target row throws; POST catches it
MatchPrepareThrow ==
  /\ pc = "start" /\ MatchValid
  /\ \E k \in 1..Len(request.file2Data.v) : IsNullRow(request.file2Data.v[k])
  /\ response' = ErrorResponse(500, "Internal server error")
  /\ pc' = "done"
  /\ UNCHANGED <<pageVars, request, i, slicedData, seen, uniqueRows, uniqueSignatures,
                 duplicatesFound, file2Values, matches, matchedCount,
                 unmatchedCount, signaturesBuilt, pairsScored>>

MatchStep ==
  /\ pc = "match"
  /\ i < Len(request.file1Data.v)
  /\ ~IsNullRow(request.file1Data.v[i + 1])
  /\ LET file1Row == request.file1Data.v[i + 1]
         file1Value == normalizeValue(Get(file1Row, request.file1Column.v))
         bestMatch == findBestMatch(file1Value, file2Values, MatchThreshold,
                                    MatchAlgorithm)
     IN  /\ matches' =
               Append(matches,
                      MatchEntry(i, file1Row, bestMatch, request.file1Column.v,
                                 request.file2Column.v,
                                 Default(request.file1AdditionalColumns, <<>>),
                                 Default(request.file2AdditionalColumns, <<>>)))
         /\ matchedCount' = IF bestMatch.found THEN matchedCount + 1 ELSE matchedCount
         /\ unmatchedCount' =
               IF bestMatch.found THEN unmatchedCount ELSE unmatchedCount + 1
         /\ pairsScored' =
               IF Len(file1Value) = 0 THEN pairsScored
               ELSE pairsScored + Len(file2Values)
  /\ i' = i + 1
  /\ UNCHANGED <<pageVars, request, pc, slicedData, seen, uniqueRows, uniqueSignatures,
                 duplicatesFound, file2Values, signaturesBuilt, response>>

\* file1Row[file1Column] on a null source row throws; POST catches it
MatchThrow ==
  /\ pc = "match"
  /\ i < Len(request.file1Data.v)
  /\ IsNullRow(request.file1Data.v[i + 1])
  /\ response' = ErrorResponse(500, "Internal server error")
  /\ pc' = "done"
  /\ UNCHANGED <<pageVars, request, i, slicedData, seen, uniqueRows, uniqueSignatures,
                 duplicatesFound, file2Values, matches, matchedCount,
                 unmatchedCount, signaturesBuilt, pairsScored>>

MatchRespond ==
  /\ pc = "match"
  /\ i = Len(request.file1Data.v)
  /\ response' = [status |-> 200,
                  body |-> MatchBody(matches, request.file1Data.v,
                                     request.file2Data.v, matchedCount,
                                     unmatchedCount)]
  /\ pc' = "done"
  /\ UNCHANGED <<pageVars, request, i, slicedData, seen, uniqueRows, uniqueSignatures,
                 duplicatesFound, file2Values, matches, matchedCount,
                 unmatchedCount, signaturesBuilt, pairsScored>>

(***************************************************************************)
(* The pages before any file is chosen                                     *)
(***************************************************************************)
JsUndefined == [t |-> "undefined"]

\* No request has been sent yet
NoRequest == [op |-> "none"]

NoFile == [t |-> "none"]

\* The useState initial values of Home.  sheets is workbookData.SheetNames;
\* file and the sort settings are read by no modelled handler and are left
\* out; the mode, the threshold and the algorithm keep their initial values.
HomeInit ==
  [workbookData |-> Null, selectedSheet |-> "", columns |-> <<>>,
   result |-> Null, duplicatesFound |-> <<>>, selectedDuplicates |-> {},
   originalData |-> <<>>, loading |-> FALSE, comparisonMode |-> "fuzzy",
   similarityThreshold |-> Frac(4, 5), similarityAlgorithm |-> "jaro-winkler",
   sliceStart |-> 0, sliceEnd |-> Undefined, totalRows |-> 0]

\* The useState initial values of MatchPage
NoFileChosen ==
  [workbook |-> Null, selectedSheet |-> "", columns |-> <<>>,
   selectedColumn |-> "", additionalColumns |-> <<>>]

MatchPageInit ==
  [file1 |-> NoFileChosen, file2 |-> NoFileChosen,
   similarityThreshold |-> Frac(4, 5), similarityAlgorithm |-> "jaro-winkler",
   matches |-> Array(<<>>), loading |-> FALSE, stats |-> Null]

Idle ==
  /\ pc = "start" /\ i = 0 /\ slicedData = <<>> /\ seen = EmptySeen
  /\ uniqueRows = <<>> /\ uniqueSignatures = <<>> /\ duplicatesFound = <<>>
  /\ file2Values = <<>> /\ matches = <<>> /\ matchedCount = 0
  /\ unmatchedCount = 0 /\ signaturesBuilt = 0 /\ pairsScored = 0
  /\ response = NoResponse
  /\ home = HomeInit /\ matchPage = MatchPageInit /\ written = NoFile

Init == request \in DedupRequests /\ Idle

Next ==
  \/ DedupRejectData
  \/ DedupRejectColumns
  \/ DedupSlice
  \/ ExactStep
  \/ FuzzyStep
  \/ DedupThrow
  \/ DedupRespond

Spec == Init /\ [][Next]_vars

InitMatch == request \in MatchRequests /\ Idle

NextMatch ==
  \/ MatchRejectFile1
  \/ MatchRejectFile2
  \/ MatchRejectColumns
  \/ MatchPrepare
  \/ MatchPrepareThrow
  \/ MatchStep
  \/ MatchThrow
  \/ MatchRespond

SpecMatch == InitMatch /\ [][NextMatch]_vars

\* Both endpoints
InitApi == request \in DedupRequests \cup MatchRequests /\ Idle

NextApi == Next \/ NextMatch

SpecApi == InitApi /\ [][NextApi]_vars

(***************************************************************************)
(* The two normalizers applied to one cell value, and again to their own   *)
(* result                                                                  *)
(***************************************************************************)
NormAlphabet == {" ", "a", "B", "N", "1"}

NormStrings == UNION {[1..n -> NormAlphabet] : n \in 0..MaxStrLen}

CellValues ==
  {Absent, StrVal(NullToken), BoolVal(TRUE), BoolVal(FALSE)}
    \cup {StrVal(str) : str \in NormStrings}
    \cup {NumVal(n) : n \in {-1, 0, 10}}

ApplySignatureNormalizer ==
  /\ pc = "start" /\ request.op = "normalize"
  /\ LET once == NormalizeSignatureValue(request.value)
     IN  response' = [once |-> once, twice |-> NormalizeSignatureValue(StrVal(once))]
  /\ pc' = "signature"
  /\ UNCHANGED <<pageVars, request, i, slicedData, seen, uniqueRows, uniqueSignatures,
                 duplicatesFound, file2Values, matches, matchedCount,
                 unmatchedCount, signaturesBuilt, pairsScored>>

ApplyNormalizeValue ==
  /\ pc = "start" /\ request.op = "normalize"
  /\ LET once == normalizeValue(request.value)
     IN  response' = [once |-> once, twice |-> normalizeValue(StrVal(once))]
  /\ pc' = "value"
  /\ UNCHANGED <<pageVars, request, i, slicedData, seen, uniqueRows, uniqueSignatures,
                 duplicatesFound, file2Values, matches, matchedCount,
                 unmatchedCount, signaturesBuilt, pairsScored>>

InitNorm == request \in {[op |-> "normalize", value |-> v] : v \in CellValues} /\ Idle

NextNorm == ApplySignatureNormalizer \/ ApplyNormalizeValue

SpecNorm == InitNorm /\ [][NextNorm]_vars

(***************************************************************************)
(* Both endpoints on requests with omitted, unknown or out-of-range        *)
(* options                                                                 *)
(***************************************************************************)
InitOptions == request \in OptionRequests /\ Idle

SpecOptions == InitOptions /\ [][NextApi]_vars

(***************************************************************************)
(* The two scorers applied to one pair of strings                          *)
(***************************************************************************)
ScoreAlphabet == {"a", "b", "c"}

\* Longer strings, on which the pair lists and the matching window of the
\* library scorers have more than one element
LongStrings ==
  {<<"a", "b", "a", "b">>, <<"b", "a", "b", "a">>, <<"a", "b", "c", "a">>,
   <<"a", "a", "b", "c">>}

ScoreStrings ==
  UNION {[1..n -> ScoreAlphabet] : n \in 0..MaxStrLen} \cup LongStrings

ScoreRequests ==
  {[op |-> "score", str1 |-> str1, str2 |-> str2, algorithm |-> algorithm] :
     str1 \in ScoreStrings, str2 \in ScoreStrings,
     algorithm \in Algorithms \cup {"cosine"}}

ApplyCalculateSimilarity ==
  /\ pc = "start" /\ request.op = "score"
  /\ response' = [score |-> calculateSimilarity(request.str1, request.str2,
                                                request.algorithm)]
  /\ pc' = "scored"
  /\ UNCHANGED <<pageVars, request, i, slicedData, seen, uniqueRows, uniqueSignatures,
                 duplicatesFound, file2Values, matches, matchedCount,
                 unmatchedCount, signaturesBuilt, pairsScored>>

ApplyCalculateSimilarityMatch ==
  /\ pc = "start" /\ request.op = "score"
  /\ response' = [score |-> calculateSimilarityMatch(request.str1, request.str2,
                                                     request.algorithm)]
  /\ pc' = "scoredMatch"
  /\ UNCHANGED <<pageVars, request, i, slicedData, seen, uniqueRows, uniqueSignatures,
                 duplicatesFound, file2Values, matches, matchedCount,
                 unmatchedCount, signaturesBuilt, pairsScored>>

InitScore == request \in ScoreRequests /\ Idle

NextScore == ApplyCalculateSimilarity \/ ApplyCalculateSimilarityMatch

SpecScore == InitScore /\ [][NextScore]_vars

(***************************************************************************)
(* The workbooks read by the pages through the xlsx library                *)
(***************************************************************************)
Sheet(headers, rows) == [headers |-> headers, rows |-> rows]

NameRow(name) == Row("Name" :> StrVal(name))

\* A workbook with a sheet of three rows and one that has a header line only
Workbook ==
  [Liste |-> Sheet(<<"Name">>, <<NameRow(<<"A", "b">>), NameRow(<<"a", "b">>),
                                 NameRow(<<"b", "a", "b">>)>>),
   Vide |-> Sheet(<<"Name">>, <<>>)]

SheetNames == DOMAIN Workbook

\* XLSX.utils.sheet_to_json(worksheet): one record per data line
sheet_to_json(worksheet) == worksheet.rows

\* XLSX.utils.sheet_to_json(worksheet, { header: 1 }): one array per line, the
\* header line first
sheet_to_json_header(worksheet) ==
  IF worksheet.headers = <<>> THEN <<>>
  ELSE <<worksheet.headers>> \o
       [k \in 1..Len(worksheet.rows) |->
          [c \in 1..Len(worksheet.headers) |->
             Get(worksheet.rows[k], worksheet.headers[c])]]

\* What is typed in a number input: nothing, or an integer
TypedValues == {Undefined} \cup {Some(n) : n \in -1..(MaxRows + 1)}

\* parseInt(value) || fallback
ParseIntOr(value, fallback) ==
  IF ~value.some THEN fallback ELSE IF value.v = 0 THEN fallback ELSE value.v

(***************************************************************************)
(* The Home page (app/page.tsx).  The POST it sends is handled by the      *)
(* steps of the process-excel handler above.                               *)
(***************************************************************************)
\* A handler starts on the request just received
HandlerStarts ==
  /\ pc' = "start" /\ i' = 0 /\ slicedData' = <<>> /\ seen' = EmptySeen
  /\ uniqueRows' = <<>> /\ uniqueSignatures' = <<>> /\ duplicatesFound' = <<>>
  /\ file2Values' = <<>> /\ matches' = <<>> /\ matchedCount' = 0
  /\ unmatchedCount' = 0 /\ signaturesBuilt' = 0 /\ pairsScored' = 0
  /\ response' = NoResponse

SelectedColumns(columns) ==
  LET chosen == SelectSeq(columns, LAMBDA col : col.selected)
  IN  [k \in 1..Len(chosen) |-> chosen[k].name]

\* reader.onload of handleFileChange
handleFileChange ==
  /\ home' = [home EXCEPT !.workbookData = Workbook, !.selectedSheet = "",
                          !.columns = <<>>, !.result = Null,
                          !.duplicatesFound = <<>>, !.selectedDuplicates = {},
                          !.originalData = <<>>]
  /\ written' = NoFile
  /\ UNCHANGED <<apiVars, matchPage>>

\* The state of Home after the sheet select is set to sheetName
AfterSheetChange(state, sheetName) ==
  LET cleared == [state EXCEPT !.selectedSheet = sheetName, !.result = Null]
  IN  IF state.workbookData = Null THEN cleared
      ELSE IF sheetName = "" THEN cleared
      ELSE LET jsonData == sheet_to_json_header(state.workbookData[sheetName])
           IN  IF Len(jsonData) > 0
               THEN [cleared EXCEPT
                       !.columns = [k \in 1..Len(jsonData[1]) |->
                                      [name |-> jsonData[1][k],
                                       selected |-> FALSE]],
                       !.totalRows = Len(jsonData) - 1,
                       !.sliceStart = 0,
                       !.sliceEnd = Some(Len(jsonData) - 1)]
               ELSE cleared

handleSheetChange ==
  /\ home.workbookData # Null
  /\ \E sheetName \in {""} \cup SheetNames :
       home' = AfterSheetChange(home, sheetName)
  /\ written' = NoFile
  /\ UNCHANGED <<apiVars, matchPage>>

handleColumnToggle ==
  /\ \E index \in 1..Len(home.columns) :
       home' = [home EXCEPT !.columns[index].selected = ~@]
  /\ written' = NoFile
  /\ UNCHANGED <<apiVars, matchPage>>

\* The value given to setSliceStart by the onChange of the start input
ClampedStart(value, totalRows) ==
  LET val == ParseIntOr(value, 0)
      maxStart == IF totalRows > 0 THEN totalRows - 1 ELSE val
  IN  Max(0, Min(val, maxStart))

\* The value given to setSliceEnd by the onChange of the end input
ClampedEnd(value, totalRows) ==
  IF ~value.some THEN Undefined
  ELSE LET num == ParseIntOr(value, 1)
           maxEnd == IF totalRows > 0 THEN totalRows ELSE num
       IN  Some(Max(1, Min(num, maxEnd)))

onSliceStartChange ==
  /\ Len(home.columns) > 0
  /\ \E value \in TypedValues :
       home' = [home EXCEPT !.sliceStart = ClampedStart(value, home.totalRows)]
  /\ written' = NoFile
  /\ UNCHANGED <<apiVars, matchPage>>

onSliceEndChange ==
  /\ Len(home.columns) > 0
  /\ \E value \in TypedValues :
       home' = [home EXCEPT !.sliceEnd = ClampedEnd(value, home.totalRows)]
  /\ written' = NoFile
  /\ UNCHANGED <<apiVars, matchPage>>

\* handleSubmit up to the await of fetch: the body of the POST is in request
handleSubmit ==
  /\ Len(home.columns) > 0 /\ ~home.loading
  /\ home.workbookData # Null /\ home.selectedSheet # ""
  /\ Len(SelectedColumns(home.columns)) > 0
  /\ LET jsonData == sheet_to_json(home.workbookData[home.selectedSheet])
     IN  /\ home' = [home EXCEPT !.loading = TRUE, !.originalData = jsonData,
                                 !.totalRows = Len(jsonData),
                                 !.selectedDuplicates = {}]
         /\ request' = DedupRequest(Array(jsonData),
                                    Array(SelectedColumns(home.columns)),
                                    Some(home.comparisonMode),
                                    Some(home.similarityThreshold),
                                    Some(home.similarityAlgorithm),
                                    <<Some(home.sliceStart), home.sliceEnd>>)
  /\ HandlerStarts
  /\ written' = NoFile
  /\ UNCHANGED matchPage

\* handleSubmit from the answer of the POST on
handleSubmitAnswered ==
  /\ home.loading /\ request.op = "dedup" /\ pc = "done"
  /\ LET found == IF response.status = 200 THEN response.body.duplicatesFound
                  ELSE <<>>
     IN  home' = [home EXCEPT
                  !.result = IF response.status = 200
                             THEN Array(response.body.uniqueRows)
                             ELSE JsUndefined,
                  !.duplicatesFound = found,
                  !.selectedDuplicates = 0..(Len(found) - 1),
                  !.loading = FALSE]
  /\ written' = NoFile
  /\ UNCHANGED <<apiVars, matchPage>>

handleDuplicateToggle ==
  /\ \E index \in 0..(Len(home.duplicatesFound) - 1) :
       home' = [home EXCEPT
                  !.selectedDuplicates = IF index \in @ THEN @ \ {index}
                                         ELSE @ \cup {index}]
  /\ written' = NoFile
  /\ UNCHANGED <<apiVars, matchPage>>

handleSelectAllDuplicates ==
  /\ Len(home.duplicatesFound) > 0
  /\ \E selectAll \in BOOLEAN :
       home' = [home EXCEPT
                  !.selectedDuplicates =
                     IF selectAll THEN 0..(Len(home.duplicatesFound) - 1)
                     ELSE {}]
  /\ written' = NoFile
  /\ UNCHANGED <<apiVars, matchPage>>

\* The elements of rows whose 0-based position is not in removed, in order
FilterOut(rows, removed) ==
  LET kept == {p \in 0..(Len(rows) - 1) : p \notin removed}
      nth(k) == CHOOSE p \in kept : Cardinality({q \in kept : q < p}) = k - 1
  IN  [k \in 1..Cardinality(kept) |-> rows[nth(k) + 1]]

\* filteredData of handleExport
FilteredData(state) ==
  LET endIndex == Default(state.sliceEnd, Len(state.originalData))
      sliced == slice(state.originalData, state.sliceStart, endIndex)
      indexesToRemove ==
        {state.duplicatesFound[idx + 1].duplicateIndex :
           idx \in state.selectedDuplicates
                     \cap 0..(Len(state.duplicatesFound) - 1)}
  IN  FilterOut(sliced, indexesToRemove)

handleExport ==
  /\ Len(home.duplicatesFound) > 0
  /\ Len(home.originalData) > 0
  /\ home.workbookData # Null /\ home.selectedSheet # ""
  /\ written' = [t |-> "file", sheet |-> home.selectedSheet,
                 rows |-> FilteredData(home)]
  /\ UNCHANGED <<apiVars, home, matchPage>>

InitHome == request = NoRequest /\ Idle

NextHome ==
  \/ handleFileChange
  \/ handleSheetChange
  \/ handleColumnToggle
  \/ onSliceStartChange
  \/ onSliceEndChange
  \/ handleSubmit
  \/ handleSubmitAnswered
  \/ handleDuplicateToggle
  \/ handleSelectAllDuplicates
  \/ handleExport
  \/ DedupRejectData
  \/ DedupSlice
  \/ FuzzyStep
  \/ DedupRespond

SpecHome == InitHome /\ [][NextHome]_vars

(***************************************************************************)
(* The MatchPage page.  The state of file n is matchPage.file<n>: workbook *)
(* is file<n>Workbook, selectedSheet is file<n>SelectedSheet, and so on.   *)
(* The POST it sends is handled by the steps of the match-columns handler. *)
(***************************************************************************)
\* The page has rendered: reading matches.length did not throw
Rendered == matchPage.matches.t = "array"

\* reader.onload of handleFile1Change and handleFile2Change
AfterFileChange(state, which) ==
  [state EXCEPT ![which] = [workbook |-> Workbook, selectedSheet |-> "",
                            columns |-> <<>>, selectedColumn |-> "",
                            additionalColumns |-> <<>>],
                !.matches = Array(<<>>),
                !.stats = Null]

handleFile1Change ==
  /\ Rendered
  /\ matchPage' = AfterFileChange(matchPage, "file1")
  /\ written' = NoFile
  /\ UNCHANGED <<apiVars, home>>

handleFile2Change ==
  /\ Rendered
  /\ matchPage' = AfterFileChange(matchPage, "file2")
  /\ written' = NoFile
  /\ UNCHANGED <<apiVars, home>>

\* handleSheet1Change and handleSheet2Change
AfterMatchSheetChange(state, which, sheetName) ==
  LET cleared == [state EXCEPT ![which].selectedSheet = sheetName,
                               ![which].selectedColumn = "",
                               !.matches = Array(<<>>),
                               !.stats = Null]
  IN  IF state[which].workbook = Null THEN cleared
      ELSE IF sheetName = "" THEN cleared
      ELSE LET jsonData == sheet_to_json_header(state[which].workbook[sheetName])
           IN  IF Len(jsonData) > 0
               THEN [cleared EXCEPT
                       ![which].columns = jsonData[1],
                       ![which].additionalColumns =
                          [k \in 1..Len(jsonData[1]) |->
                             [name |-> jsonData[1][k], selected |-> FALSE]]]
               ELSE cleared

handleSheet1Change ==
  /\ Rendered /\ matchPage.file1.workbook # Null
  /\ \E sheetName \in {""} \cup SheetNames :
       matchPage' = AfterMatchSheetChange(matchPage, "file1", sheetName)
  /\ written' = NoFile
  /\ UNCHANGED <<apiVars, home>>

handleSheet2Change ==
  /\ Rendered /\ matchPage.file2.workbook # Null
  /\ \E sheetName \in {""} \cup SheetNames :
       matchPage' = AfterMatchSheetChange(matchPage, "file2", sheetName)
  /\ written' = NoFile
  /\ UNCHANGED <<apiVars, home>>

\* The values offered by the column select of a file
ColumnOptions(fileState) ==
  {""} \cup {fileState.columns[k] : k \in 1..Len(fileState.columns)}

setFile1SelectedColumn ==
  /\ Rendered /\ Len(matchPage.file1.columns) > 0
  /\ \E value \in ColumnOptions(matchPage.file1) :
       matchPage' = [matchPage EXCEPT !.file1.selectedColumn = value]
  /\ written' = NoFile
  /\ UNCHANGED <<apiVars, home>>

setFile2SelectedColumn ==
  /\ Rendered /\ Len(matchPage.file2.columns) > 0
  /\ \E value \in ColumnOptions(matchPage.file2) :
       matchPage' = [matchPage EXCEPT !.file2.selectedColumn = value]
  /\ written' = NoFile
  /\ UNCHANGED <<apiVars, home>>

\* handleAdditionalColumnToggle on the check boxes of file 1 or of file 2
handleAdditionalColumnToggle ==
  /\ Rendered
  /\ \E which \in {"file1", "file2"} :
       /\ Len(matchPage[which].columns) > 0
       /\ \E index \in 1..Len(matchPage[which].additionalColumns) :
            matchPage' =
              [matchPage EXCEPT ![which].additionalColumns[index].selected = ~@]
  /\ written' = NoFile
  /\ UNCHANGED <<apiVars, home>>

canSubmit ==
  /\ matchPage.file1.workbook # Null
  /\ matchPage.file1.selectedSheet # ""
  /\ matchPage.file1.selectedColumn # ""
  /\ matchPage.file2.workbook # Null
  /\ matchPage.file2.selectedSheet # ""
  /\ matchPage.file2.selectedColumn # ""

\* The body of the POST sent by handleSubmit of MatchPage
MatchPageBody(state) ==
  MatchRequest(Array(sheet_to_json(state.file1.workbook[state.file1.selectedSheet])),
               Array(sheet_to_json(state.file2.workbook[state.file2.selectedSheet])),
               Some(state.file1.selectedColumn),
               Some(state.file2.selectedColumn),
               Some(SelectedColumns(state.file1.additionalColumns)),
               Some(SelectedColumns(state.file2.additionalColumns)),
               Some(state.similarityThreshold),
               Some(state.similarityAlgorithm))

\* handleSubmit of MatchPage up to the await of fetch
handleMatchSubmit ==
  /\ Rendered /\ canSubmit /\ ~matchPage.loading
  /\ matchPage' = [matchPage EXCEPT !.loading = TRUE]
  /\ request' = MatchPageBody(matchPage)
  /\ HandlerStarts
  /\ written' = NoFile
  /\ UNCHANGED home

\* A field of the parsed answer: undefined when the answer does not have it
Field(body, name) ==
  IF name \in DOMAIN body
  THEN IF name = "matches" THEN Array(body[name]) ELSE NumVal(body[name])
  ELSE JsUndefined

\* handleSubmit of MatchPage from the answer of the POST on
handleMatchSubmitAnswered ==
  /\ matchPage.loading /\ request.op = "match" /\ pc = "done"
  /\ LET result == response.body
     IN  matchPage' =
           [matchPage EXCEPT
              !.matches = Field(result, "matches"),
              !.stats = [totalFile1Rows |-> Field(result, "totalFile1Rows"),
                         totalFile2Rows |-> Field(result, "totalFile2Rows"),
                         matchedCount |-> Field(result, "matchedCount"),
                         unmatchedCount |-> Field(result, "unmatchedCount")],
              !.loading = FALSE]
  /\ written' = NoFile
  /\ UNCHANGED <<apiVars, home>>

\* (score * 100).toFixed(1), in tenths of a percent
ScoreTenths(score) == (2000 * score.n + score.d) \div (2 * score.d)

\* One row of exportData
ExportRow(match, column1, column2) ==
  [column1 |-> column1, value1 |-> match.file1Value,
   column2 |-> column2,
   value2 |-> IF match.file2Value = Null THEN StrVal(<<>>) ELSE match.file2Value,
   score |-> IF match.score.n = 0 THEN [text |-> "Non trouvé"]
             ELSE [tenths |-> ScoreTenths(match.score)],
   line1 |-> NumVal(match.file1RowIndex + 2),
   line2 |-> IF match.file2RowIndex # Null
             THEN NumVal(match.file2RowIndex.n + 2) ELSE StrVal(<<>>),
   additional1 |-> match.file1AdditionalData,
   additional2 |-> match.file2AdditionalData]

\* handleExport of MatchPage
handleMatchExport ==
  /\ Rendered /\ matchPage.stats # Null
  /\ Len(matchPage.matches.v) > 0
  /\ written' = [t |-> "file", sheet |-> "Correspondances",
                 rows |-> [k \in 1..Len(matchPage.matches.v) |->
                             ExportRow(matchPage.matches.v[k],
                                       matchPage.file1.selectedColumn,
                                       matchPage.file2.selectedColumn)]]
  /\ UNCHANGED <<apiVars, home, matchPage>>

InitMatchPage == request = NoRequest /\ Idle

NextMatchPage ==
  \/ handleFile1Change
  \/ handleFile2Change
  \/ handleSheet1Change
  \/ handleSheet2Change
  \/ setFile1SelectedColumn
  \/ setFile2SelectedColumn
  \/ handleAdditionalColumnToggle
  \/ handleMatchSubmit
  \/ handleMatchSubmitAnswered
  \/ handleMatchExport
  \/ MatchRejectFile1
  \/ MatchRejectFile2
  \/ MatchPrepare
  \/ MatchStep
  \/ MatchRespond

SpecMatchPage == InitMatchPage /\ [][NextMatchPage]_vars

(***************************************************************************)
(* Properties                                                              *)
(***************************************************************************)
DedupRunning ==
  /\ request.op = "dedup"
  /\ ~InvalidArray(request.data)
  /\ ~InvalidArray(request.columns)
  /\ pc \in {"reduce", "done"}

ExactRunning == DedupRunning /\ ComparisonMode = "exact"

DedupOk == DedupRunning /\ pc = "done" /\ response.status = 200

Signatures(rows, columns, n) == [k \in 1..n |-> createSignature(rows[k], columns)]

\* The positions among the first n whose signature occurs at no earlier position
FirstPositions(sigs) == {k \in 1..Len(sigs) : \A j \in 1..(k - 1) : sigs[j] # sigs[k]}

\* The output rows without the attached isni field
StripIsni(rows) ==
  [k \in 1..Len(rows) |->
     Row([c \in DOMAIN rows[k].cells \ {"isni"} |-> rows[k].cells[c]])]

\* C1: in exact mode the accepted rows are, after every processed record and in
\* the response, exactly the first occurrences of their signature among the
\* processed records, in input order.
C1_ExactFirstOccurrences ==
  ExactRunning =>
    LET sigs == Signatures(slicedData, request.columns.v, i)
    IN  /\ uniqueRows = Pick(SubSeq(slicedData, 1, i), FirstPositions(sigs), 1)
        /\ DedupOk =>
             /\ i = Len(slicedData)
             /\ StripIsni(response.body.uniqueRows) = uniqueRows

C1_Witness ==
  /\ ExactRunning /\ DedupOk
  /\ Len(slicedData) = 3
  /\ Len(response.body.uniqueRows) = 2
  /\ duplicatesFound # <<>>
  /\ duplicatesFound[1].duplicateIndex = 1

\* C2: every successful dedup response has removedCount = originalCount -
\* uniqueCount, removedCount >= 0 and uniqueCount = the number of returned rows.
C2_CountsConsistent ==
  DedupOk =>
    /\ response.body.removedCount
         = response.body.originalCount - response.body.uniqueCount
    /\ response.body.removedCount >= 0
    /\ response.body.uniqueCount = Len(response.body.uniqueRows)
    /\ response.body.originalCount = Len(request.data.v)

C2_Witness ==
  /\ DedupOk /\ ComparisonMode = "fuzzy"
  /\ Len(slicedData) < Len(request.data.v)
  /\ duplicatesFound # <<>>
  /\ response.body.removedCount > Len(duplicatesFound)

\* The DuplicateInfo the exact reducer owes for position k of sigs
ExactInfo(sigs, k) ==
  [original |-> sigs[k],
   duplicate |-> sigs[k],
   originalIndex |-> (CHOOSE j \in FirstPositions(sigs) : sigs[j] = sigs[k]) - 1,
   duplicateIndex |-> k - 1]

\* C3: in exact mode duplicatesFound holds, in order, exactly one entry per
\* non-first occurrence: its index, the index of the first record with the same
\* signature, that signature twice and no score; the documented five-row sheet
\* gives 3 unique rows and 2 entries with original indices 0 and 1.
C3_ExactDuplicateInfo ==
  ExactRunning =>
    LET sigs == Signatures(slicedData, request.columns.v, i)
    IN  /\ duplicatesFound
             = Pick([k \in 1..i |-> ExactInfo(sigs, k)],
                    (1..i) \ FirstPositions(sigs), 1)
        /\ DedupOk => response.body.duplicatesFound = duplicatesFound
        /\ (DedupOk /\ request \in DocumentedRequests) =>
             /\ response.body.uniqueCount = 3
             /\ Len(response.body.duplicatesFound) = 2
             /\ response.body.duplicatesFound[1].originalIndex = 0
             /\ response.body.duplicatesFound[1].duplicateIndex = 2
             /\ response.body.duplicatesFound[2].originalIndex = 1
             /\ response.body.duplicatesFound[2].duplicateIndex = 4

C3_Witness ==
  /\ DedupOk /\ request \in DocumentedRequests
  /\ Len(response.body.duplicatesFound) = 2

\* Equality of two cell values as the documentation states it: both absent, or
\* equal after String(), trim() and toLowerCase()
SameNormalized(v, w) ==
  IF IsAbsent(v) \/ IsAbsent(w) THEN IsAbsent(v) /\ IsAbsent(w)
  ELSE toLowerCase(trim(String(v))) = toLowerCase(trim(String(w)))

SameOnColumns(row1, row2, columns) ==
  \A k \in 1..Len(columns) :
    SameNormalized(Get(row1, columns[k]), Get(row2, columns[k]))

\* C4: two processed records that agree on every selected column up to case,
\* surrounding whitespace and absence have the same signature, and in exact mode
\* the later one is reported as a duplicate of the first record with that
\* signature (the earlier one, or one before it).
C4_NormalizedEquality ==
  ExactRunning =>
    \A a \in 1..i : \A b \in (a + 1)..i :
      SameOnColumns(slicedData[a], slicedData[b], request.columns.v) =>
        /\ createSignature(slicedData[a], request.columns.v)
             = createSignature(slicedData[b], request.columns.v)
        /\ \E k \in 1..Len(duplicatesFound) :
             /\ duplicatesFound[k].duplicateIndex = b - 1
             /\ duplicatesFound[k].originalIndex <= a - 1
             /\ duplicatesFound[k].original
                  = createSignature(slicedData[a], request.columns.v)

C4_Witness ==
  /\ ExactRunning /\ DedupOk
  /\ request.columns.v = <<"Name", "Email">>
  /\ slicedData = <<RowA, RowB>>
  /\ Len(duplicatesFound) = 1
  /\ duplicatesFound[1].originalIndex = 0
  /\ duplicatesFound[1].duplicateIndex = 1

Pairs(duplicates) ==
  [k \in 1..Len(duplicates) |->
     <<duplicates[k].originalIndex, duplicates[k].duplicateIndex>>]

\* C5: a fuzzy run with threshold 1.0 returns the rows and the (originalIndex,
\* duplicateIndex) pairs of exact dedup on the same input, for each algorithm.
C5_FuzzyAtOneIsExact ==
  (DedupOk /\ ComparisonMode = "fuzzy"
     /\ SameScore(SimilarityThreshold, Frac(1, 1))) =>
    LET exact == removeExactDuplicates(slicedData, request.columns.v)
    IN  /\ StripIsni(response.body.uniqueRows) = exact.uniqueRows
        /\ Pairs(response.body.duplicatesFound) = Pairs(exact.duplicatesFound)

MatchOk == request.op = "match" /\ pc = "done" /\ response.status = 200

\* C6: a successful cross-match response has one matches entry per source
\* record, in source order with file1RowIndex = position, and matchedCount +
\* unmatchedCount = totalFile1Rows = matches.length.
C6_OneEntryPerSourceRow ==
  MatchOk =>
    /\ response.body.totalFile1Rows = Len(request.file1Data.v)
    /\ Len(response.body.matches) = response.body.totalFile1Rows
    /\ response.body.matchedCount + response.body.unmatchedCount
         = response.body.totalFile1Rows
    /\ \A k \in 1..Len(response.body.matches) :
         /\ response.body.matches[k].file1RowIndex = k - 1
         /\ response.body.matches[k].file1Value
              = Get(request.file1Data.v[k], request.file1Column.v)

C6_Witness ==
  /\ MatchOk
  /\ Len(response.body.matches) = 3
  /\ response.body.matchedCount >= 1
  /\ response.body.unmatchedCount >= 1

\* C7: in a cross-match response every entry without a target has score 0.
C7_UnmatchedScoreZero ==
  MatchOk =>
    \A k \in 1..Len(response.body.matches) :
      response.body.matches[k].file2RowIndex = Null =>
        response.body.matches[k].score.n = 0

\* an unmatched entry whose source value scored above 0 against a target
C7_Witness ==
  /\ MatchOk
  /\ \E k \in 1..Len(response.body.matches) :
       /\ response.body.matches[k].file2RowIndex = Null
       /\ \E e \in 1..Len(file2Values) :
            calculateSimilarityMatch(
              normalizeValue(response.body.matches[k].file1Value),
              file2Values[e].value, MatchAlgorithm).n > 0

\* C8 as stated: both normalizers are idempotent on every cell value, absent
\* included.
C8_NormalizersIdempotent ==
  pc \in {"signature", "value"} => response.twice = response.once

\* C8 as the code has it: normalizeValue is idempotent on every cell value and
\* the signature normalizer on every value that is not absent; an absent value
\* becomes the token NULL, whose own normal form is null.
C8_IdempotentUnlessAbsent ==
  /\ pc = "value" => response.twice = response.once
  /\ (pc = "signature" /\ ~IsAbsent(request.value)) =>
       response.twice = response.once
  /\ (pc = "signature" /\ IsAbsent(request.value)) =>
       /\ response.once = NullToken
       /\ response.twice = <<"n", "u", "l", "l">>
  /\ (pc = "value" /\ IsAbsent(request.value)) => response.once = <<>>

C8_Witness ==
  /\ pc = "value"
  /\ request.value = StrVal(<<" ", "B">>)
  /\ response.once = <<"b">>
  /\ response.twice = <<"b">>

\* A request field the validation must reject
NoRows(x) == x \in {Missing, NotArray, Array(<<>>)}

NoColumn(c) == c \in {Undefined, Some("")}

InvalidRequest ==
  IF request.op = "dedup"
  THEN NoRows(request.data) \/ NoRows(request.columns)
  ELSE \/ NoRows(request.file1Data) \/ NoRows(request.file2Data)
       \/ NoColumn(request.file1Column) \/ NoColumn(request.file2Column)

\* C9: an invalid request is answered with an error message only, and nothing
\* is sliced, normalized, signed or scored for it.
C9_ValidationFirst ==
  InvalidRequest =>
    /\ pc \in {"start", "done"}
    /\ signaturesBuilt = 0 /\ pairsScored = 0
    /\ slicedData = <<>> /\ uniqueRows = <<>> /\ duplicatesFound = <<>>
    /\ file2Values = <<>> /\ matches = <<>>
    /\ pc = "done" =>
         /\ response.status = 400
         /\ DOMAIN response.body = {"error"}

C9_Witness ==
  /\ request.op = "match"
  /\ request.file1Data = Array(<<RowB>>)
  /\ request.file2Data = Array(<<RowA>>)
  /\ request.file2Column = Some("")
  /\ pc = "done"
  /\ response.status = 400

SliceStartGiven == Default(request.sliceStart, 0)

SliceEndGiven == Default(request.sliceEnd, Len(request.data.v))

\* The records of data at the 0-based positions from <= p < to
RecordsBetween(data, from, to) ==
  Pick(data, {p + 1 : p \in {q \in 0..(Len(data) - 1) : from <= q /\ q < to}}, 1)

\* The 0-based positions of data that the run processes
ProcessedPositions ==
  LET from == RelIndex(SliceStartGiven, Len(request.data.v))
  IN  {from + k - 1 : k \in 1..Len(slicedData)}

IndexesInSlice ==
  \A k \in 1..Len(duplicatesFound) :
    /\ duplicatesFound[k].originalIndex \in 0..(Len(slicedData) - 1)
    /\ duplicatesFound[k].duplicateIndex \in 0..(Len(slicedData) - 1)

\* Index 0 of a DuplicateInfo is the record at position base of data
IndexesRelativeTo(base) ==
  \A k \in 1..Len(duplicatesFound) :
    LET o == base + duplicatesFound[k].originalIndex + 1
        d == base + duplicatesFound[k].duplicateIndex + 1
    IN  /\ o \in 1..Len(request.data.v)
        /\ d \in 1..Len(request.data.v)
        /\ createSignature(request.data.v[o], request.columns.v)
             = duplicatesFound[k].original
        /\ createSignature(request.data.v[d], request.columns.v)
             = duplicatesFound[k].duplicate

\* C10 as stated: only records at positions sliceStart <= p < sliceEnd are
\* processed, and the reported indexes are relative to sliceStart and lie in
\* [0, slice length).
C10_SliceIsIndexRange ==
  DedupRunning =>
    /\ \A p \in ProcessedPositions : SliceStartGiven <= p /\ p < SliceEndGiven
    /\ IndexesInSlice
    /\ IndexesRelativeTo(SliceStartGiven)

\* C10 as the code has it: a bound below 0 counts from the end of data (never
\* below position 0); with the bounds so read, exactly the records at positions
\* start <= p < end are processed, and the reported indexes are relative to
\* start and lie in [0, slice length).
FromEnd(bound, len) == IF bound < 0 THEN Max(len + bound, 0) ELSE bound

C10_SliceCountsFromEnd ==
  DedupRunning =>
    LET start == FromEnd(SliceStartGiven, Len(request.data.v))
        end == FromEnd(SliceEndGiven, Len(request.data.v))
    IN  /\ slicedData = RecordsBetween(request.data.v, start, end)
        /\ IndexesInSlice
        /\ IndexesRelativeTo(start)

C10_Witness ==
  /\ DedupOk
  /\ request.sliceStart = Some(1)
  /\ Len(request.data.v) = 3
  /\ Len(slicedData) = 2
  /\ Len(duplicatesFound) = 1
  /\ duplicatesFound[1].originalIndex = 0
  /\ duplicatesFound[1].duplicateIndex = 1

OptionRun ==
  /\ request \in DedupOptionRequests \cup MatchOptionRequests
  /\ pc = "done"

\* The option as the documentation reads it: the given value, or the documented
\* default when it is omitted
Documented(option, default) == IF option.some THEN option.v ELSE default

DocumentedAlgorithm(option, default) ==
  IF option.some /\ option.v \in Algorithms THEN option.v ELSE default

\* C11: a dedup request answers as the same request with every omitted option
\* written out as fuzzy / 0.8 / jaro-winkler, a cross-match request as with
\* 0.8 / dice, and an algorithm name the scorer does not know answers as the
\* default algorithm of its endpoint.
C11_DefaultsPerOperation ==
  OptionRun =>
    /\ response.status = 200
    /\ request.op = "dedup" =>
         response.body
           = DedupAnswer(request,
                         Documented(request.comparisonMode, "fuzzy"),
                         Documented(request.similarityThreshold, Frac(4, 5)),
                         DocumentedAlgorithm(request.similarityAlgorithm,
                                             "jaro-winkler"))
    /\ request.op = "match" =>
         response.body
           = MatchColumns(request,
                          Documented(request.similarityThreshold, Frac(4, 5)),
                          DocumentedAlgorithm(request.similarityAlgorithm, "dice"))

\* every option omitted: "ab" and "aba" are duplicates under jaro-winkler at 0.8
\* and under neither dice nor levenshtein
C11_Witness ==
  /\ OptionRun /\ request.op = "dedup"
  /\ request.comparisonMode = Undefined
  /\ request.similarityThreshold = Undefined
  /\ request.similarityAlgorithm = Undefined
  /\ request.data.v = <<RowA, RowC>>
  /\ Len(response.body.duplicatesFound) = 1
  /\ Geq(response.body.duplicatesFound[1].score, Frac(4, 5))
  /\ ~Geq(calculateSimilarity(<<"a", "b", "a">>, <<"a", "b">>, "dice"), Frac(4, 5))

\* The edit distance by its recurrence: the least number of single-character
\* insertions, deletions and substitutions turning a into b
RECURSIVE EditDistance(_, _)
EditDistance(a, b) ==
  IF a = <<>> THEN Len(b)
  ELSE IF b = <<>> THEN Len(a)
  ELSE IF Head(a) = Head(b) THEN EditDistance(Tail(a), Tail(b))
  ELSE 1 + Min(EditDistance(Tail(a), Tail(b)),
               Min(EditDistance(Tail(a), b), EditDistance(a, Tail(b))))

\* C12: the levenshtein score of the dedup scorer is 1 - editDistance(a, b) /
\* max(|a|, |b|), two empty strings score 1, and "a" against "b" scores 0.
C12_LevenshteinNormalized ==
  (pc = "scored" /\ request.algorithm = "levenshtein") =>
    LET longest == Max(Len(request.str1), Len(request.str2))
    IN  /\ longest = 0 => SameScore(response.score, Frac(1, 1))
        /\ longest > 0 =>
             SameScore(response.score,
                       Frac(longest - EditDistance(request.str1, request.str2),
                            longest))
        /\ (request.str1 = <<"a">> /\ request.str2 = <<"b">>) =>
             SameScore(response.score, Frac(0, 1))

C12_Witness ==
  /\ pc = "scored" /\ request.algorithm = "levenshtein"
  /\ request.str1 = <<"a">> /\ request.str2 = <<"b">>
  /\ response.score.n = 0

\* Every ordering of a column selection
Orderings(columns) ==
  {[k \in 1..Len(columns) |-> columns[f[k]]] :
     f \in {g \in [1..Len(columns) -> 1..Len(columns)] :
              \A a, b \in 1..Len(columns) : g[a] = g[b] => a = b}}

PairSet(duplicates) ==
  {<<duplicates[k].originalIndex, duplicates[k].duplicateIndex>> :
     k \in 1..Len(duplicates)}

\* C13: in exact mode every ordering of the selected columns gives the same
\* uniqueRows and the same set of (originalIndex, duplicateIndex) pairs.
C13_ColumnOrderIrrelevant ==
  (ExactRunning /\ DedupOk) =>
    \A ordering \in Orderings(request.columns.v) :
      LET other == removeExactDuplicates(slicedData, ordering)
      IN  /\ other.uniqueRows = uniqueRows
          /\ PairSet(other.duplicatesFound) = PairSet(duplicatesFound)

HasIsni(row) == "isni" \in DOMAIN row.cells

\* C14: no step of either endpoint changes the caller's request (its record
\* sequences and every field of every record), and in a dedup response isni
\* sits on output records only: each output record is an accepted input record
\* plus isni, and no input record has gained the field.
C14_InputNeverMutated ==
  /\ [][request' = request]_vars
  /\ [](DedupOk =>
          /\ \A k \in 1..Len(response.body.uniqueRows) :
               HasIsni(response.body.uniqueRows[k])
          /\ StripIsni(response.body.uniqueRows) = uniqueRows
          /\ \A p \in 1..Len(request.data.v) : ~HasIsni(request.data.v[p]))

C14_Witness ==
  /\ DedupOk
  /\ Len(response.body.uniqueRows) = 2
  /\ HasIsni(response.body.uniqueRows[2])
  /\ request.data.v = <<RowA, RowB, RowC>>
  /\ StripIsni(response.body.uniqueRows) = <<RowA, RowC>>

OutOfRange(threshold) == threshold.n < 0 \/ threshold.n > threshold.d

Clamped(threshold) ==
  IF threshold.n < 0 THEN Frac(0, 1)
  ELSE IF threshold.n > threshold.d THEN Frac(1, 1)
  ELSE threshold

ThresholdOutOfRange ==
  IF request.similarityThreshold.some
  THEN OutOfRange(request.similarityThreshold.v) ELSE FALSE

\* C15: a request whose threshold lies outside [0, 1] is answered with an error
\* or with exactly the answer to the same request with the threshold clamped
\* into [0, 1].
C15_OutOfRangeClampedOrRejected ==
  (OptionRun /\ ThresholdOutOfRange) =>
    \/ response.status >= 400
    \/ /\ request.op = "dedup"
       /\ response.body
            = DedupAnswer(request,
                          Documented(request.comparisonMode, "fuzzy"),
                          Clamped(request.similarityThreshold.v),
                          DocumentedAlgorithm(request.similarityAlgorithm,
                                              "jaro-winkler"))
    \/ /\ request.op = "match"
       /\ response.body
            = MatchColumns(request, Clamped(request.similarityThreshold.v),
                           DocumentedAlgorithm(request.similarityAlgorithm, "dice"))

FuzzyRunning == DedupRunning /\ ComparisonMode # "exact"

\* The signature of the processed record at 0-based position p of the slice
SignatureAt(p) == createSignature(slicedData[p + 1], request.columns.v)

\* The score of the record at position d against the record at position a
SimilarityAt(d, a) ==
  calculateSimilarity(SignatureAt(d), SignatureAt(a), SimilarityAlgorithm)

\* The positions accepted before the record at position d was examined
AcceptedBefore(d) ==
  {uniqueSignatures[k].index : k \in 1..Len(uniqueSignatures)} \cap 0..(d - 1)

\* C16: every DuplicateInfo of a fuzzy run names as original an accepted record
\* of maximum similarity to the duplicate among the records accepted before it;
\* that maximum is >= threshold and is the reported score, and of the accepted
\* records attaining it the earliest is named.
C16_FuzzyBestCandidate ==
  FuzzyRunning =>
    \A k \in 1..Len(duplicatesFound) :
      LET info == duplicatesFound[k]
          d == info.duplicateIndex
          o == info.originalIndex
      IN  /\ o \in AcceptedBefore(d)
          /\ info.original = SignatureAt(o)
          /\ info.duplicate = SignatureAt(d)
          /\ info.score = SimilarityAt(d, o)
          /\ Geq(info.score, SimilarityThreshold)
          /\ \A a \in AcceptedBefore(d) :
               /\ Geq(info.score, SimilarityAt(d, a))
               /\ SameScore(info.score, SimilarityAt(d, a)) => o <= a

\* "ab" scores 2/3 against both accepted records "aba" and "bab"
C16_Witness ==
  /\ FuzzyRunning /\ DedupOk
  /\ slicedData = <<RowC, RowD, RowA>>
  /\ request.columns.v = <<"Name">>
  /\ SimilarityAlgorithm = "levenshtein"
  /\ AcceptedBefore(2) = {0, 1}
  /\ SameScore(SimilarityAt(2, 0), SimilarityAt(2, 1))
  /\ Len(duplicatesFound) = 1
  /\ duplicatesFound[1].originalIndex = 0
  /\ duplicatesFound[1].duplicateIndex = 2

AcceptedAt(p) == \E k \in 1..Len(uniqueSignatures) : uniqueSignatures[k].index = p

ReportsOf(p) == {k \in 1..Len(duplicatesFound) : duplicatesFound[k].duplicateIndex = p}

\* C17: in a fuzzy run a processed record is accepted (appended to uniqueRows
\* and to the accepted list) exactly when no record accepted before it scores
\* >= threshold against it; otherwise it is left out of uniqueRows and exactly
\* one DuplicateInfo reports it.  Each processed record is in exactly one of
\* the two outputs and the first record is accepted.
C17_FuzzyPartition ==
  FuzzyRunning =>
    /\ Len(uniqueRows) = Len(uniqueSignatures)
    /\ \A k \in 1..Len(uniqueSignatures) :
         /\ uniqueSignatures[k].index \in 0..(i - 1)
         /\ uniqueRows[k] = slicedData[uniqueSignatures[k].index + 1]
         /\ \A j \in 1..(k - 1) :
              uniqueSignatures[j].index < uniqueSignatures[k].index
    /\ \A p \in 0..(i - 1) :
         /\ AcceptedAt(p) <=>
              ~\E a \in AcceptedBefore(p) :
                 Geq(SimilarityAt(p, a), SimilarityThreshold)
         /\ Cardinality(ReportsOf(p)) = IF AcceptedAt(p) THEN 0 ELSE 1
    /\ i >= 1 => AcceptedAt(0)
    /\ Len(duplicatesFound) + Len(uniqueRows) = i
    /\ DedupOk =>
         /\ StripIsni(response.body.uniqueRows) = uniqueRows
         /\ response.body.duplicatesFound = duplicatesFound

C17_Witness ==
  /\ FuzzyRunning /\ DedupOk
  /\ Len(slicedData) = 3
  /\ Len(response.body.uniqueRows) = 2
  /\ Len(response.body.duplicatesFound) = 1
  /\ AcceptedAt(0) /\ ~AcceptedAt(1) /\ AcceptedAt(2)

\* The positions in none of whose DuplicateInfo the record is the duplicate
Unmerged == {p \in 0..(i - 1) : ReportsOf(p) = {}}

\* The number of comparisons a run owes when every record is compared against
\* the unmerged records before it, and against nothing else
RECURSIVE ComparisonsOwed(_)
ComparisonsOwed(n) ==
  IF n = 0 THEN 0
  ELSE ComparisonsOwed(n - 1) + Cardinality(Unmerged \cap 0..(n - 2))

Similar(a, b) ==
  /\ Geq(SimilarityAt(a, b), SimilarityThreshold)
  /\ Geq(SimilarityAt(b, a), SimilarityThreshold)

Dissimilar(a, b) ==
  /\ ~Geq(SimilarityAt(a, b), SimilarityThreshold)
  /\ ~Geq(SimilarityAt(b, a), SimilarityThreshold)

\* The records at positions a, b, c are a non-transitive triple
NonTransitive(a, b, c) ==
  /\ a # b /\ b # c /\ a # c
  /\ Similar(a, b) /\ Similar(b, c) /\ Dissimilar(a, c)

ThreeRecords ==
  IF FuzzyRunning /\ Len(slicedData) = 3
  THEN \A p \in 1..3 : ~IsNullRow(slicedData[p])
  ELSE FALSE

\* C18: for three records A, B, C with sim(A,B) >= t, sim(B,C) >= t and
\* sim(A,C) < t, in whichever order they are scanned, the run ends without an
\* error, every record is compared against the accepted (unmerged) records
\* before it only, every reported original is an accepted record, and exactly
\* one of B and C is in uniqueRows.
C18_NonTransitiveTriple ==
  ThreeRecords =>
    \A a, b, c \in 0..2 :
      NonTransitive(a, b, c) =>
        /\ pairsScored = ComparisonsOwed(i)
        /\ \A k \in 1..Len(duplicatesFound) :
             duplicatesFound[k].originalIndex \in Unmerged
        /\ {uniqueSignatures[k].index : k \in 1..Len(uniqueSignatures)} = Unmerged
        /\ pc = "done" =>
             /\ response.status = 200
             /\ AcceptedAt(b) # AcceptedAt(c)
             /\ (\E k \in 1..Len(uniqueRows) : uniqueRows[k] = slicedData[b + 1])
                  # (\E k \in 1..Len(uniqueRows) : uniqueRows[k] = slicedData[c + 1])

\* A = "aba", B = "ab", C = "bab" under levenshtein at 0.5, scanned A, B, C: B is
\* merged into A, and C, compared against A only, is accepted
C18_Witness ==
  /\ ThreeRecords /\ pc = "done"
  /\ slicedData = <<RowC, RowA, RowD>>
  /\ NonTransitive(0, 1, 2)
  /\ AcceptedAt(0) /\ ~AcceptedAt(1) /\ AcceptedAt(2)
  /\ pairsScored = 2

MatchRunning == request.op = "match" /\ pc \in {"match", "done"}

\* The scores of matches entry k against the targets, numbered from 1
TargetScores(k) ==
  [j \in 1..Len(file2Values) |->
     calculateSimilarityMatch(normalizeValue(matches[k].file1Value),
                              file2Values[j].value, MatchAlgorithm)]

Qualifying(scores) == {j \in DOMAIN scores : Geq(scores[j], MatchThreshold)}

\* The qualifying targets no other qualifying target outscores
Best(scores) ==
  {j \in Qualifying(scores) : \A h \in Qualifying(scores) : Geq(scores[j], scores[h])}

\* C19: for a source record with a non-empty normalized value the entry names
\* the target of maximum score among the targets scoring >= threshold, the
\* lowest index among equal maxima, with that score; when no target scores
\* >= threshold the entry has a null target.
C19_BestTarget ==
  MatchRunning =>
    \A k \in 1..Len(matches) :
      normalizeValue(matches[k].file1Value) # <<>> =>
        LET scores == TargetScores(k)
            best == Best(scores)
        IN  IF best = {}
            THEN /\ Qualifying(scores) = {}
                 /\ matches[k].file2RowIndex = Null
            ELSE LET j == CHOOSE b \in best : \A h \in best : b <= h
                 IN  /\ matches[k].file2RowIndex = NumVal(j - 1)
                     /\ matches[k].score = scores[j]

\* two targets "ab" both score 1 against the source " aB ": target 0 is named
C19_Witness ==
  /\ MatchRunning /\ pc = "done" /\ response.status = 200
  /\ request.file2Data.v = <<RowA, RowA>>
  /\ request.file1Data.v = <<RowB>>
  /\ request.file1Column.v = "Name"
  /\ Best(TargetScores(1)) = {1, 2}
  /\ response.body.matches[1].file2RowIndex = NumVal(0)

\* The matches entries whose source value is absent or normalizes to ""
EmptySources == {k \in 1..Len(matches) : normalizeValue(matches[k].file1Value) = <<>>}

\* C20: a source record whose value at the source column is absent or
\* normalizes to the empty string gets an entry with file2RowIndex = null,
\* file2Value = null and score 0, whatever the threshold, the algorithm and the
\* targets, and is counted in unmatchedCount.
C20_EmptySourceUnmatched ==
  MatchRunning =>
    /\ \A k \in EmptySources :
         /\ matches[k].file2RowIndex = Null
         /\ matches[k].file2Value = Null
         /\ matches[k].score = Frac(0, 1)
    /\ unmatchedCount
         = Cardinality({k \in 1..Len(matches) : matches[k].file2RowIndex = Null})
    /\ unmatchedCount >= Cardinality(EmptySources)
    /\ (pc = "done" /\ response.status = 200) =>
         /\ response.body.matches = matches
         /\ response.body.unmatchedCount = unmatchedCount

\* a blank source and an absent one at a threshold below every score
C20_Witness ==
  /\ MatchRunning /\ pc = "done" /\ response.status = 200
  /\ request.similarityThreshold = Some(Frac(-1, 2))
  /\ request.file1Column.v = "Email"
  /\ request.file1Data.v = <<RowD, RowBlank>>
  /\ request.file2Data.v = <<RowC>>
  /\ EmptySources = {2}
  /\ response.body.matches[2].file2RowIndex = Null
  /\ response.body.matchedCount = 1
  /\ response.body.unmatchedCount = 1

\* The normalized target-column value of the target named by matches entry k
MatchedTargetValue(k) == file2Values[matches[k].file2RowIndex.n + 1].value

\* C21: whatever the threshold and the algorithm, no matches entry names a
\* target whose normalized target-column value is the empty string.
C21_EmptyTargetNeverMatched ==
  MatchRunning =>
    \A k \in 1..Len(matches) :
      matches[k].file2RowIndex # Null => MatchedTargetValue(k) # <<>>

\* The score of the request's pair taken in the other order
SwappedDedupScore ==
  calculateSimilarity(request.str2, request.str1, request.algorithm)

SwappedMatchScore ==
  calculateSimilarityMatch(request.str2, request.str1, request.algorithm)

UnitInterval(score) == Geq(score, Frac(0, 1)) /\ Geq(Frac(1, 1), score)

\* C22: both scorers give the same score to (a, b) and to (b, a), a score in
\* [0, 1], and the dedup scorer gives 1 to identical strings.
C22_ScorerSymmetricBounded ==
  /\ pc = "scored" =>
       /\ SameScore(response.score, SwappedDedupScore)
       /\ UnitInterval(response.score)
       /\ request.str1 = request.str2 => SameScore(response.score, Frac(1, 1))
  /\ pc = "scoredMatch" =>
       /\ SameScore(response.score, SwappedMatchScore)
       /\ UnitInterval(response.score)

\* Two different strings of different lengths scored strictly between 0 and 1
C22_Witness ==
  /\ pc = "scored"
  /\ request.algorithm = "dice"
  /\ Len(request.str1) < Len(request.str2)
  /\ Gt(response.score, Frac(0, 1))
  /\ Gt(Frac(1, 1), response.score)
  /\ SameScore(response.score, SwappedDedupScore)

ThresholdZero == FuzzyRunning /\ SameScore(SimilarityThreshold, Frac(0, 1))

\* C23: in a fuzzy run with threshold 0, whatever the algorithm, only the first
\* record of the processed slice is accepted and every later record is reported
\* as a duplicate, after every processed record and in the response.
C23_ThresholdZeroKeepsFirst ==
  ThresholdZero /\ i >= 1 =>
    /\ uniqueRows = <<slicedData[1]>>
    /\ Len(duplicatesFound) = i - 1
    /\ \A p \in 1..(i - 1) : duplicatesFound[p].duplicateIndex = p
    /\ DedupOk =>
         /\ StripIsni(response.body.uniqueRows) = <<slicedData[1]>>
         /\ response.body.duplicatesFound = duplicatesFound
         /\ Len(duplicatesFound) = Len(slicedData) - 1

\* A threshold-0 answer in which a later record scoring 0 against the first
\* one was reported as its duplicate
C23_Witness ==
  /\ ThresholdZero
  /\ DedupOk
  /\ Len(slicedData) >= 2
  /\ ~(request.sliceStart = Undefined)
  /\ \E k \in 1..Len(duplicatesFound) :
       SameScore(duplicatesFound[k].score, Frac(0, 1))

HasNullRow(rows) == \E k \in 1..Len(rows) : IsNullRow(rows[k])

GenericError == ErrorResponse(500, "Internal server error")

\* A finished dedup request whose processed slice holds a null record
DedupFaulted == DedupRunning /\ pc = "done" /\ HasNullRow(slicedData)

\* A finished cross-match request one of whose record lists holds a null record
MatchFaulted ==
  /\ MatchValid
  /\ pc = "done"
  /\ HasNullRow(request.file1Data.v) \/ HasNullRow(request.file2Data.v)

\* C24: a request that meets a null record while building signatures, scoring
\* or reducing is answered by the generic error alone, whose body has the
\* error field only (no uniqueRows, duplicatesFound or matches), however many
\* records were processed before the fault.
C24_FaultAbortsRequest ==
  /\ DedupFaulted \/ MatchFaulted => response = GenericError
  /\ response.status = 500 => DOMAIN response.body = {"error"}

\* A dedup request that faulted after a record was accepted and another one
\* reported as a duplicate
C24_Witness ==
  /\ DedupFaulted
  /\ response = GenericError
  /\ Len(uniqueRows) >= 1
  /\ Len(duplicatesFound) >= 1

\* C25: in every successful dedup response uniqueCount plus the number of
\* duplicatesFound entries is originalCount, and removedCount is the number of
\* reported duplicates, for every mode and every sliceStart/sliceEnd.
C25_CountsAddUp ==
  DedupOk =>
    /\ response.body.uniqueCount + Len(response.body.duplicatesFound)
         = response.body.originalCount
    /\ response.body.removedCount = Len(response.body.duplicatesFound)

\* The positions of the slice whose record was accepted so far
AcceptedPositions == AcceptedIndexes(ComparisonMode, seen, uniqueSignatures)

\* The records of the slice at the positions of S, in increasing position order
RowsAt(S) ==
  LET nth(k) == CHOOSE p \in S : Cardinality({q \in S : q < p}) = k - 1
  IN  [k \in 1..Cardinality(S) |-> slicedData[nth(k) + 1]]

ReportedPositions == {duplicatesFound[k].duplicateIndex : k \in 1..Len(duplicatesFound)}

\* C26: in both modes and after every processed record, each DuplicateInfo has
\* originalIndex < duplicateIndex, its originalIndex is the position of a
\* record that is in uniqueRows and was not itself reported, and the
\* duplicateIndex values are strictly increasing (so none appears twice).
C26_ReportWellFormed ==
  DedupRunning =>
    /\ AcceptedPositions \subseteq 0..(i - 1)
    /\ uniqueRows = RowsAt(AcceptedPositions)
    /\ \A k \in 1..Len(duplicatesFound) :
         /\ duplicatesFound[k].originalIndex < duplicatesFound[k].duplicateIndex
         /\ duplicatesFound[k].duplicateIndex \in 0..(i - 1)
         /\ duplicatesFound[k].originalIndex \in AcceptedPositions
         /\ duplicatesFound[k].originalIndex \notin ReportedPositions
         /\ \A j \in 1..(k - 1) :
              duplicatesFound[j].duplicateIndex < duplicatesFound[k].duplicateIndex

\* An exact run in which two records were reported against the same original
C26_Witness ==
  /\ ExactRunning
  /\ Len(duplicatesFound) >= 2
  /\ duplicatesFound[1].originalIndex = duplicatesFound[2].originalIndex

\* The score the k-th accepted signature had against the j-th accepted one
AcceptedScore(k, j) ==
  calculateSimilarity(uniqueSignatures[k].signature,
                      uniqueSignatures[j].signature, SimilarityAlgorithm)

\* C27: at every step of a fuzzy run, for any two accepted records the later
\* one scores strictly below the threshold against the earlier one.
C27_AcceptedPairwiseBelowThreshold ==
  FuzzyRunning =>
    \A k \in 1..Len(uniqueSignatures) :
      \A j \in 1..(k - 1) :
        /\ uniqueSignatures[j].index < uniqueSignatures[k].index
        /\ Gt(SimilarityThreshold, AcceptedScore(k, j))

\* Three accepted records, two of them scoring above 0 against each other
C27_Witness ==
  /\ FuzzyRunning
  /\ Len(uniqueSignatures) = 3
  /\ Len(duplicatesFound) = 0
  /\ \E k \in 2..3 : \E j \in 1..(k - 1) : Gt(AcceptedScore(k, j), Frac(0, 1))

\* The duplicateIndex values of the duplicates selected on the Home page
SelectedDuplicateIndexes ==
  {home.duplicatesFound[idx + 1].duplicateIndex : idx \in home.selectedDuplicates}

\* The slice of the rows sent in the last processing request, as the handler
\* took it
SentSlice == slicedData

\* C28: when handleExport runs after a completed processing, whatever slice
\* edits, sheet changes and duplicate toggles came in between, the rows written
\* are the rows of the slice sent in that processing request minus the rows
\* whose duplicateIndex belongs to a currently selected duplicate.
C28_ExportConsistent ==
  written.t = "file" /\ ~home.loading =>
    written.rows = FilterOut(SentSlice, SelectedDuplicateIndexes)

\* C30: with a sheet loaded and sliceEnd set, 0 <= sliceStart < sliceEnd <=
\* totalRows.
C30_SliceRange ==
  home.workbookData # Null /\ home.selectedSheet # "" /\ home.sliceEnd.some =>
    /\ 0 <= home.sliceStart
    /\ home.sliceStart < home.sliceEnd.v
    /\ home.sliceEnd.v <= home.totalRows

\* C29: the matches state of MatchPage is always a sequence and stats is null
\* or holds four numbers, also after a submission answered with an error.
C29_MatchPageWellTyped ==
  /\ matchPage.matches.t = "array"
  /\ matchPage.stats # Null =>
       \A name \in DOMAIN matchPage.stats : matchPage.stats[name].t = "num"

====
